---- MODULE Spec2Model ----
(***************************************************************************)
(* A model of the cipher-suite negotiation layer of GnuTLS                 *)
(* (gnutls_algorithms.c): the static algorithm tables, the per-session     *)
(* priority lookups, the cipher-suite filter, the priority quicksort and   *)
(* the suite resolver, the algorithm registries, the compression methods,  *)
(* the protocol versions and the credential mappings.                      *)
(***************************************************************************)
EXTENDS Integers, Sequences, FiniteSets, TLC

VARIABLES
    session,   \* session->internals / security_parameters fields read here
    call,      \* the function called last and its arguments
    ret,       \* the value that call returned
    ciphers,   \* the caller's GNUTLS_CipherSuite* receiving the result
    _gnutls_compression_algorithms,
               \* the global compression table, as the build initialised it
    _gnutls_kx_algorithms,
               \* the global key-exchange table, as the build initialised it
    errno      \* the thread's errno, read and written by the transport

globals == <<_gnutls_compression_algorithms, _gnutls_kx_algorithms>>

vars == <<session, call, ret, ciphers, globals, errno>>

(***************************************************************************)
(* Enumerations.  The enum types are declared in gnutls.h.  The            *)
(* negotiation code only compares their values for equality, except for    *)
(* the protocol versions, which it orders (SSL 3.0 before TLS 1.0).        *)
(***************************************************************************)
gnutls_cipher_algorithm ==
    [ GNUTLS_CIPHER_NULL |-> 1,
      GNUTLS_CIPHER_ARCFOUR_128 |-> 2,
      GNUTLS_CIPHER_3DES_CBC |-> 3,
      GNUTLS_CIPHER_AES_128_CBC |-> 4,
      GNUTLS_CIPHER_AES_256_CBC |-> 5,
      GNUTLS_CIPHER_TWOFISH_128_CBC |-> 6,
      GNUTLS_CIPHER_ARCFOUR_40 |-> 7,
      GNUTLS_CIPHER_RC2_40_CBC |-> 90,
      GNUTLS_CIPHER_DES_CBC |-> 91 ]

GNUTLS_CIPHER_NULL == gnutls_cipher_algorithm.GNUTLS_CIPHER_NULL
GNUTLS_CIPHER_ARCFOUR_128 == gnutls_cipher_algorithm.GNUTLS_CIPHER_ARCFOUR_128
GNUTLS_CIPHER_3DES_CBC == gnutls_cipher_algorithm.GNUTLS_CIPHER_3DES_CBC
GNUTLS_CIPHER_AES_128_CBC == gnutls_cipher_algorithm.GNUTLS_CIPHER_AES_128_CBC
GNUTLS_CIPHER_AES_256_CBC == gnutls_cipher_algorithm.GNUTLS_CIPHER_AES_256_CBC
GNUTLS_CIPHER_TWOFISH_128_CBC == gnutls_cipher_algorithm.GNUTLS_CIPHER_TWOFISH_128_CBC
GNUTLS_CIPHER_ARCFOUR_40 == gnutls_cipher_algorithm.GNUTLS_CIPHER_ARCFOUR_40
GNUTLS_CIPHER_RC2_40_CBC == gnutls_cipher_algorithm.GNUTLS_CIPHER_RC2_40_CBC
GNUTLS_CIPHER_DES_CBC == gnutls_cipher_algorithm.GNUTLS_CIPHER_DES_CBC

gnutls_kx_algorithm ==
    [ GNUTLS_KX_RSA |-> 1,
      GNUTLS_KX_DHE_DSS |-> 2,
      GNUTLS_KX_DHE_RSA |-> 3,
      GNUTLS_KX_ANON_DH |-> 4,
      GNUTLS_KX_SRP |-> 5,
      GNUTLS_KX_RSA_EXPORT |-> 6,
      GNUTLS_KX_SRP_RSA |-> 7,
      GNUTLS_KX_SRP_DSS |-> 8 ]

GNUTLS_KX_RSA == gnutls_kx_algorithm.GNUTLS_KX_RSA
GNUTLS_KX_DHE_DSS == gnutls_kx_algorithm.GNUTLS_KX_DHE_DSS
GNUTLS_KX_DHE_RSA == gnutls_kx_algorithm.GNUTLS_KX_DHE_RSA
GNUTLS_KX_ANON_DH == gnutls_kx_algorithm.GNUTLS_KX_ANON_DH
GNUTLS_KX_SRP == gnutls_kx_algorithm.GNUTLS_KX_SRP
GNUTLS_KX_RSA_EXPORT == gnutls_kx_algorithm.GNUTLS_KX_RSA_EXPORT
GNUTLS_KX_SRP_RSA == gnutls_kx_algorithm.GNUTLS_KX_SRP_RSA
GNUTLS_KX_SRP_DSS == gnutls_kx_algorithm.GNUTLS_KX_SRP_DSS

gnutls_mac_algorithm ==
    [ GNUTLS_MAC_NULL |-> 1,
      GNUTLS_MAC_MD5 |-> 2,
      GNUTLS_MAC_SHA |-> 3 ]

GNUTLS_MAC_NULL == gnutls_mac_algorithm.GNUTLS_MAC_NULL
GNUTLS_MAC_MD5 == gnutls_mac_algorithm.GNUTLS_MAC_MD5
GNUTLS_MAC_SHA == gnutls_mac_algorithm.GNUTLS_MAC_SHA

gnutls_protocol_version ==
    [ GNUTLS_SSL3 |-> 1,
      GNUTLS_TLS1 |-> 2 ]

GNUTLS_SSL3 == gnutls_protocol_version.GNUTLS_SSL3
GNUTLS_TLS1 == gnutls_protocol_version.GNUTLS_TLS1

gnutls_error_codes ==
    [ GNUTLS_E_MEMORY_ERROR |-> -25,
      GNUTLS_E_NO_CIPHER_SUITES |-> -87,
      GNUTLS_E_NO_COMPRESSION_ALGORITHMS |-> -86 ]

GNUTLS_E_MEMORY_ERROR == gnutls_error_codes.GNUTLS_E_MEMORY_ERROR
GNUTLS_E_NO_CIPHER_SUITES == gnutls_error_codes.GNUTLS_E_NO_CIPHER_SUITES

(***************************************************************************)
(* The cipher table, without the entry that ends it (name NULL).  An       *)
(* entry is [name, id, blocksize, keysize, block, iv, export_flag].        *)
(***************************************************************************)
cipher_type_t ==
    [ CIPHER_STREAM |-> 0,
      CIPHER_BLOCK |-> 1 ]

CIPHER_STREAM == cipher_type_t.CIPHER_STREAM
CIPHER_BLOCK == cipher_type_t.CIPHER_BLOCK

gnutls_cipher_entry(name, id, blocksize, keysize, block, iv, export_flag) ==
    [ name |-> name, id |-> id, blocksize |-> blocksize, keysize |-> keysize,
      block |-> block, iv |-> iv, export_flag |-> export_flag ]

algorithms ==
    << gnutls_cipher_entry("3DES 168 CBC", GNUTLS_CIPHER_3DES_CBC, 8, 24, CIPHER_BLOCK, 8, 0),
       gnutls_cipher_entry("AES 128 CBC", GNUTLS_CIPHER_AES_128_CBC, 16, 16, CIPHER_BLOCK, 16, 0),
       gnutls_cipher_entry("AES 256 CBC", GNUTLS_CIPHER_AES_256_CBC, 16, 32, CIPHER_BLOCK, 16, 0),
       gnutls_cipher_entry("TWOFISH 128 CBC", GNUTLS_CIPHER_TWOFISH_128_CBC, 16, 16, CIPHER_BLOCK, 16, 0),
       gnutls_cipher_entry("ARCFOUR 128", GNUTLS_CIPHER_ARCFOUR_128, 1, 16, CIPHER_STREAM, 0, 0),
       gnutls_cipher_entry("ARCFOUR 40", GNUTLS_CIPHER_ARCFOUR_40, 1, 5, CIPHER_STREAM, 0, 1),
       gnutls_cipher_entry("RC2 40", GNUTLS_CIPHER_RC2_40_CBC, 8, 5, CIPHER_BLOCK, 8, 1),
       gnutls_cipher_entry("DES CBC", GNUTLS_CIPHER_DES_CBC, 8, 8, CIPHER_BLOCK, 8, 0),
       gnutls_cipher_entry("NULL", GNUTLS_CIPHER_NULL, 1, 0, CIPHER_STREAM, 0, 0) >>

(* The mac table: entries [name, id, digestsize].                          *)
gnutls_hash_entry(name, id, digestsize) ==
    [ name |-> name, id |-> id, digestsize |-> digestsize ]

hash_algorithms ==
    << gnutls_hash_entry("SHA", GNUTLS_MAC_SHA, 20),
       gnutls_hash_entry("MD5", GNUTLS_MAC_MD5, 16),
       gnutls_hash_entry("NULL", GNUTLS_MAC_NULL, 0) >>

(***************************************************************************)
(* The cipher-suite table.  A name is the stringified macro name, kept as  *)
(* the pair <<"GNUTLS_", rest>> so that skipping the prefix is an          *)
(* operation; an id is the pair of wire bytes.                             *)
(***************************************************************************)
(* One of the id macros, and its mutation: the bytes of the macro before   *)
(* it, GNUTLS_RSA_ARCFOUR_SHA.                                             *)
GNUTLS_RSA_ARCFOUR_MD5_with_bytes_of_SHA == <<0, 5>>

GNUTLS_RSA_ARCFOUR_MD5 == <<0, 4>>

GNUTLS_CIPHER_SUITE_ENTRY(name, id, block_algorithm, kx_algorithm, mac_algorithm, version) ==
    [ name |-> <<"GNUTLS_", name>>, id |-> id,
      block_algorithm |-> block_algorithm, kx_algorithm |-> kx_algorithm,
      mac_algorithm |-> mac_algorithm, version |-> version ]

cs_algorithms ==
    << (* ANON_DH *)
       GNUTLS_CIPHER_SUITE_ENTRY("ANON_DH_ARCFOUR_MD5", <<0, 24>>,
           GNUTLS_CIPHER_ARCFOUR_128, GNUTLS_KX_ANON_DH, GNUTLS_MAC_MD5, GNUTLS_SSL3),
       GNUTLS_CIPHER_SUITE_ENTRY("ANON_DH_3DES_EDE_CBC_SHA", <<0, 27>>,
           GNUTLS_CIPHER_3DES_CBC, GNUTLS_KX_ANON_DH, GNUTLS_MAC_SHA, GNUTLS_SSL3),
       GNUTLS_CIPHER_SUITE_ENTRY("ANON_DH_AES_128_CBC_SHA", <<0, 52>>,
           GNUTLS_CIPHER_AES_128_CBC, GNUTLS_KX_ANON_DH, GNUTLS_MAC_SHA, GNUTLS_SSL3),
       GNUTLS_CIPHER_SUITE_ENTRY("ANON_DH_AES_256_CBC_SHA", <<0, 58>>,
           GNUTLS_CIPHER_AES_256_CBC, GNUTLS_KX_ANON_DH, GNUTLS_MAC_SHA, GNUTLS_SSL3),
       GNUTLS_CIPHER_SUITE_ENTRY("ANON_DH_TWOFISH_128_CBC_SHA", <<255, 80>>,
           GNUTLS_CIPHER_TWOFISH_128_CBC, GNUTLS_KX_ANON_DH, GNUTLS_MAC_SHA, GNUTLS_TLS1),
       (* SRP *)
       GNUTLS_CIPHER_SUITE_ENTRY("SRP_SHA_3DES_EDE_CBC_SHA", <<0, 80>>,
           GNUTLS_CIPHER_3DES_CBC, GNUTLS_KX_SRP, GNUTLS_MAC_SHA, GNUTLS_TLS1),
       GNUTLS_CIPHER_SUITE_ENTRY("SRP_SHA_AES_128_CBC_SHA", <<0, 83>>,
           GNUTLS_CIPHER_AES_128_CBC, GNUTLS_KX_SRP, GNUTLS_MAC_SHA, GNUTLS_TLS1),
       GNUTLS_CIPHER_SUITE_ENTRY("SRP_SHA_AES_256_CBC_SHA", <<0, 86>>,
           GNUTLS_CIPHER_AES_256_CBC, GNUTLS_KX_SRP, GNUTLS_MAC_SHA, GNUTLS_TLS1),
       GNUTLS_CIPHER_SUITE_ENTRY("SRP_SHA_DSS_3DES_EDE_CBC_SHA", <<0, 82>>,
           GNUTLS_CIPHER_3DES_CBC, GNUTLS_KX_SRP_DSS, GNUTLS_MAC_SHA, GNUTLS_TLS1),
       GNUTLS_CIPHER_SUITE_ENTRY("SRP_SHA_RSA_3DES_EDE_CBC_SHA", <<0, 81>>,
           GNUTLS_CIPHER_3DES_CBC, GNUTLS_KX_SRP_RSA, GNUTLS_MAC_SHA, GNUTLS_TLS1),
       GNUTLS_CIPHER_SUITE_ENTRY("SRP_SHA_DSS_AES_128_CBC_SHA", <<0, 85>>,
           GNUTLS_CIPHER_AES_128_CBC, GNUTLS_KX_SRP_DSS, GNUTLS_MAC_SHA, GNUTLS_TLS1),
       GNUTLS_CIPHER_SUITE_ENTRY("SRP_SHA_RSA_AES_128_CBC_SHA", <<0, 84>>,
           GNUTLS_CIPHER_AES_128_CBC, GNUTLS_KX_SRP_RSA, GNUTLS_MAC_SHA, GNUTLS_TLS1),
       GNUTLS_CIPHER_SUITE_ENTRY("SRP_SHA_DSS_AES_256_CBC_SHA", <<0, 88>>,
           GNUTLS_CIPHER_AES_256_CBC, GNUTLS_KX_SRP_DSS, GNUTLS_MAC_SHA, GNUTLS_TLS1),
       GNUTLS_CIPHER_SUITE_ENTRY("SRP_SHA_RSA_AES_256_CBC_SHA", <<0, 87>>,
           GNUTLS_CIPHER_AES_256_CBC, GNUTLS_KX_SRP_RSA, GNUTLS_MAC_SHA, GNUTLS_TLS1),
       (* DHE_DSS *)
       GNUTLS_CIPHER_SUITE_ENTRY("DHE_DSS_ARCFOUR_SHA", <<0, 102>>,
           GNUTLS_CIPHER_ARCFOUR_128, GNUTLS_KX_DHE_DSS, GNUTLS_MAC_SHA, GNUTLS_TLS1),
       GNUTLS_CIPHER_SUITE_ENTRY("DHE_DSS_TWOFISH_128_CBC_SHA", <<255, 84>>,
           GNUTLS_CIPHER_TWOFISH_128_CBC, GNUTLS_KX_DHE_DSS, GNUTLS_MAC_SHA, GNUTLS_TLS1),
       GNUTLS_CIPHER_SUITE_ENTRY("DHE_DSS_3DES_EDE_CBC_SHA", <<0, 19>>,
           GNUTLS_CIPHER_3DES_CBC, GNUTLS_KX_DHE_DSS, GNUTLS_MAC_SHA, GNUTLS_SSL3),
       GNUTLS_CIPHER_SUITE_ENTRY("DHE_DSS_AES_128_CBC_SHA", <<0, 50>>,
           GNUTLS_CIPHER_AES_128_CBC, GNUTLS_KX_DHE_DSS, GNUTLS_MAC_SHA, GNUTLS_SSL3),
       GNUTLS_CIPHER_SUITE_ENTRY("DHE_DSS_AES_256_CBC_SHA", <<0, 56>>,
           GNUTLS_CIPHER_AES_256_CBC, GNUTLS_KX_DHE_DSS, GNUTLS_MAC_SHA, GNUTLS_SSL3),
       (* DHE_RSA *)
       GNUTLS_CIPHER_SUITE_ENTRY("DHE_RSA_TWOFISH_128_CBC_SHA", <<255, 85>>,
           GNUTLS_CIPHER_TWOFISH_128_CBC, GNUTLS_KX_DHE_RSA, GNUTLS_MAC_SHA, GNUTLS_TLS1),
       GNUTLS_CIPHER_SUITE_ENTRY("DHE_RSA_3DES_EDE_CBC_SHA", <<0, 22>>,
           GNUTLS_CIPHER_3DES_CBC, GNUTLS_KX_DHE_RSA, GNUTLS_MAC_SHA, GNUTLS_SSL3),
       GNUTLS_CIPHER_SUITE_ENTRY("DHE_RSA_AES_128_CBC_SHA", <<0, 51>>,
           GNUTLS_CIPHER_AES_128_CBC, GNUTLS_KX_DHE_RSA, GNUTLS_MAC_SHA, GNUTLS_SSL3),
       GNUTLS_CIPHER_SUITE_ENTRY("DHE_RSA_AES_256_CBC_SHA", <<0, 57>>,
           GNUTLS_CIPHER_AES_256_CBC, GNUTLS_KX_DHE_RSA, GNUTLS_MAC_SHA, GNUTLS_SSL3),
       (* RSA *)
       GNUTLS_CIPHER_SUITE_ENTRY("RSA_NULL_MD5", <<0, 1>>,
           GNUTLS_CIPHER_NULL, GNUTLS_KX_RSA, GNUTLS_MAC_MD5, GNUTLS_SSL3),
       GNUTLS_CIPHER_SUITE_ENTRY("RSA_EXPORT_ARCFOUR_40_MD5", <<0, 3>>,
           GNUTLS_CIPHER_ARCFOUR_40, GNUTLS_KX_RSA_EXPORT, GNUTLS_MAC_MD5, GNUTLS_SSL3),
       GNUTLS_CIPHER_SUITE_ENTRY("RSA_ARCFOUR_SHA", <<0, 5>>,
           GNUTLS_CIPHER_ARCFOUR_128, GNUTLS_KX_RSA, GNUTLS_MAC_SHA, GNUTLS_SSL3),
       GNUTLS_CIPHER_SUITE_ENTRY("RSA_ARCFOUR_MD5", GNUTLS_RSA_ARCFOUR_MD5,
           GNUTLS_CIPHER_ARCFOUR_128, GNUTLS_KX_RSA, GNUTLS_MAC_MD5, GNUTLS_SSL3),
       GNUTLS_CIPHER_SUITE_ENTRY("RSA_3DES_EDE_CBC_SHA", <<0, 10>>,
           GNUTLS_CIPHER_3DES_CBC, GNUTLS_KX_RSA, GNUTLS_MAC_SHA, GNUTLS_SSL3),
       GNUTLS_CIPHER_SUITE_ENTRY("RSA_AES_128_CBC_SHA", <<0, 47>>,
           GNUTLS_CIPHER_AES_128_CBC, GNUTLS_KX_RSA, GNUTLS_MAC_SHA, GNUTLS_SSL3),
       GNUTLS_CIPHER_SUITE_ENTRY("RSA_AES_256_CBC_SHA", <<0, 53>>,
           GNUTLS_CIPHER_AES_256_CBC, GNUTLS_KX_RSA, GNUTLS_MAC_SHA, GNUTLS_SSL3),
       GNUTLS_CIPHER_SUITE_ENTRY("RSA_TWOFISH_128_CBC_SHA", <<255, 81>>,
           GNUTLS_CIPHER_TWOFISH_128_CBC, GNUTLS_KX_RSA, GNUTLS_MAC_SHA, GNUTLS_TLS1) >>

CIPHER_SUITES_COUNT == Len(cs_algorithms)

(***************************************************************************)
(* GNUTLS_CIPHER_SUITE_ALG_LOOP: the linear scan of cs_algorithms that     *)
(* stops at the first entry whose two id bytes equal those of `suite`.     *)
(* The value is the position of that entry (the least matching position),  *)
(* or 0 when the scan reaches the terminating entry.                       *)
(***************************************************************************)
GNUTLS_CIPHER_SUITE_ALG_LOOP(suite) ==
    LET m == { p \in 1..CIPHER_SUITES_COUNT :
                 /\ cs_algorithms[p].id[1] = suite[1]
                 /\ cs_algorithms[p].id[2] = suite[2] }
    IN  IF m = {} THEN 0 ELSE CHOOSE p \in m : \A q \in m : p <= q

(* A mutation of the cipher getter: ret starts as the NULL cipher.         *)
_gnutls_cipher_suite_get_cipher_algo_or_null(suite) ==
    LET p == GNUTLS_CIPHER_SUITE_ALG_LOOP(suite)
    IN  IF p = 0 THEN GNUTLS_CIPHER_NULL ELSE cs_algorithms[p].block_algorithm

_gnutls_cipher_suite_get_cipher_algo(suite) ==
    LET p == GNUTLS_CIPHER_SUITE_ALG_LOOP(suite)
    IN  IF p = 0 THEN 0 ELSE cs_algorithms[p].block_algorithm

_gnutls_cipher_suite_get_version(suite) ==
    LET p == GNUTLS_CIPHER_SUITE_ALG_LOOP(suite)
    IN  IF p = 0 THEN 0 ELSE cs_algorithms[p].version

_gnutls_cipher_suite_get_kx_algo(suite) ==
    LET p == GNUTLS_CIPHER_SUITE_ALG_LOOP(suite)
    IN  IF p = 0 THEN 0 ELSE cs_algorithms[p].kx_algorithm

_gnutls_cipher_suite_get_mac_algo(suite) ==
    LET p == GNUTLS_CIPHER_SUITE_ALG_LOOP(suite)
    IN  IF p = 0 THEN 0 ELSE cs_algorithms[p].mac_algorithm

(***************************************************************************)
(* Names.  NULL is the empty tuple; p->name + sizeof("GNUTLS_") - 1 drops  *)
(* the first component of the name.                                        *)
(***************************************************************************)
NULL == <<>>

SkipPrefix(name) == Tail(name)

_gnutls_cipher_suite_get_name(suite) ==
    LET p == GNUTLS_CIPHER_SUITE_ALG_LOOP(suite)
    IN  IF p = 0 THEN NULL ELSE SkipPrefix(cs_algorithms[p].name)

(* gnutls_cipher_suite_get_name scans the whole table without a break:     *)
(* every matching entry overwrites ret, so the last match is returned.     *)
(* Mutation of cipher_suite_name_loop: the mac is not compared.            *)
RECURSIVE cipher_suite_name_loop_without_mac(_, _, _, _, _)
cipher_suite_name_loop_without_mac(kx_algorithm, cipher_algorithm, mac_algorithm, p, r) ==
    IF p > CIPHER_SUITES_COUNT THEN r
    ELSE cipher_suite_name_loop_without_mac(kx_algorithm, cipher_algorithm,
             mac_algorithm, p + 1,
             IF /\ kx_algorithm = cs_algorithms[p].kx_algorithm
                /\ cipher_algorithm = cs_algorithms[p].block_algorithm
             THEN SkipPrefix(cs_algorithms[p].name)
             ELSE r)

RECURSIVE cipher_suite_name_loop(_, _, _, _, _)
cipher_suite_name_loop(kx_algorithm, cipher_algorithm, mac_algorithm, p, r) ==
    IF p > CIPHER_SUITES_COUNT THEN r
    ELSE cipher_suite_name_loop(kx_algorithm, cipher_algorithm, mac_algorithm, p + 1,
             IF /\ kx_algorithm = cs_algorithms[p].kx_algorithm
                /\ cipher_algorithm = cs_algorithms[p].block_algorithm
                /\ mac_algorithm = cs_algorithms[p].mac_algorithm
             THEN SkipPrefix(cs_algorithms[p].name)
             ELSE r)

gnutls_cipher_suite_get_name(kx_algorithm, cipher_algorithm, mac_algorithm) ==
    cipher_suite_name_loop(kx_algorithm, cipher_algorithm, mac_algorithm, 1, NULL)

(***************************************************************************)
(* Priorities.  A priority list is the record [priority, algorithms]: the  *)
(* array and the number of its entries in use.  The three priority         *)
(* functions run the same loop over the list of their class.               *)
(***************************************************************************)
(* Mutation of priority_loop: the loop runs over the whole array instead   *)
(* of its first `algorithms` entries.                                      *)
RECURSIVE priority_loop_whole_array(_, _, _)
priority_loop_whole_array(list, algorithm, i) ==
    IF i < Len(list.priority)
    THEN IF list.priority[i + 1] = algorithm
         THEN i
         ELSE priority_loop_whole_array(list, algorithm, i + 1)
    ELSE -1

RECURSIVE priority_loop(_, _, _)
priority_loop(list, algorithm, i) ==
    IF i < list.algorithms
    THEN IF list.priority[i + 1] = algorithm
         THEN i
         ELSE priority_loop(list, algorithm, i + 1)
    ELSE -1

_gnutls_mac_priority(s, algorithm) ==
    priority_loop(s.mac_algorithm_priority, algorithm, 0)

_gnutls_cipher_priority(s, algorithm) ==
    priority_loop(s.cipher_algorithm_priority, algorithm, 0)

_gnutls_kx_priority(s, algorithm) ==
    priority_loop(s.kx_algorithm_priority, algorithm, 0)

gnutls_protocol_get_version(s) == s.version

(* Mutation of _gnutls_compare_algo: the weights of kx and cipher are      *)
(* exchanged.                                                              *)
_gnutls_compare_algo_weights_exchanged(s, i_A1, i_A2) ==
    LET p1 == (_gnutls_kx_priority(s, _gnutls_cipher_suite_get_kx_algo(i_A1)) + 1) * 8
              + (_gnutls_cipher_priority(s, _gnutls_cipher_suite_get_cipher_algo(i_A1)) + 1) * 64
              + _gnutls_mac_priority(s, _gnutls_cipher_suite_get_mac_algo(i_A1))
        p2 == (_gnutls_kx_priority(s, _gnutls_cipher_suite_get_kx_algo(i_A2)) + 1) * 8
              + (_gnutls_cipher_priority(s, _gnutls_cipher_suite_get_cipher_algo(i_A2)) + 1) * 64
              + _gnutls_mac_priority(s, _gnutls_cipher_suite_get_mac_algo(i_A2))
    IN  IF p1 > p2 THEN 1 ELSE IF p1 = p2 THEN 0 ELSE -1

(***************************************************************************)
(* The comparison function of the sort.                                    *)
(***************************************************************************)
(* The last lines of _gnutls_compare_algo: p1 and p2 are compared.         *)
compare_p1_p2(p1, p2) == IF p1 > p2 THEN 1 ELSE IF p1 = p2 THEN 0 ELSE -1

_gnutls_compare_algo(s, i_A1, i_A2) ==
    compare_p1_p2(
        (_gnutls_kx_priority(s, _gnutls_cipher_suite_get_kx_algo(i_A1)) + 1) * 64
        + (_gnutls_cipher_priority(s, _gnutls_cipher_suite_get_cipher_algo(i_A1)) + 1) * 8
        + _gnutls_mac_priority(s, _gnutls_cipher_suite_get_mac_algo(i_A1)),
        (_gnutls_kx_priority(s, _gnutls_cipher_suite_get_kx_algo(i_A2)) + 1) * 64
        + (_gnutls_cipher_priority(s, _gnutls_cipher_suite_get_cipher_algo(i_A2)) + 1) * 8
        + _gnutls_mac_priority(s, _gnutls_cipher_suite_get_mac_algo(i_A2)))

(***************************************************************************)
(* The quicksort.  base is the sequence of records sorted; i, j, pivot and *)
(* full are byte offsets into it, as in the C code, and At(base, o, size)  *)
(* is the record at byte offset o.                                         *)
(***************************************************************************)
At(base, o, size) == base[(o \div size) + 1]

SWAP(base, x, y, size) ==
    [base EXCEPT ![(x \div size) + 1] = At(base, y, size),
                 ![(y \div size) + 1] = At(base, x, size)]

RECURSIVE partition_inc_i(_, _, _, _, _, _)
partition_inc_i(s, base, ptmp, i, full, size) ==
    IF _gnutls_compare_algo(s, At(base, i, size), ptmp) <= 0 /\ i < full
    THEN partition_inc_i(s, base, ptmp, i + size, full, size)
    ELSE i

RECURSIVE partition_dec_j(_, _, _, _, _)
partition_dec_j(s, base, ptmp, j, size) ==
    IF _gnutls_compare_algo(s, At(base, j, size), ptmp) >= 0 /\ j > 0
    THEN partition_dec_j(s, base, ptmp, j - size, size)
    ELSE j

(* The outer while: i and j are moved by the two inner whiles, then the    *)
(* records at i and j are exchanged if i < j (partition_swap).             *)
RECURSIVE partition_loop(_, _, _, _, _, _, _)
partition_swap(s, base, ptmp, i, j, full, size) ==
    partition_loop(s, IF i < j THEN SWAP(base, j, i, size) ELSE base,
                   ptmp, i, j, full, size)

partition_loop(s, base, ptmp, i, j, full, size) ==
    IF i < j
    THEN partition_swap(s, base, ptmp,
                        partition_inc_i(s, base, ptmp, i, full, size),
                        partition_dec_j(s, base, ptmp, j, size),
                        full, size)
    ELSE [base |-> base, i |-> i, j |-> j]

(* After the loop the pivot record is put in its place; the value is the   *)
(* array and the pivot's index.                                            *)
partition_place_pivot(l, pivot, size) ==
    IF l.j > pivot
    THEN [base |-> SWAP(l.base, pivot, l.j, size), pivot |-> l.j \div size]
    ELSE IF l.i < pivot
         THEN [base |-> SWAP(l.base, pivot, l.i, size), pivot |-> l.i \div size]
         ELSE [base |-> l.base, pivot |-> pivot \div size]

_gnutls_partition(s, base, nmemb, size) ==
    partition_place_pivot(
        partition_loop(s, base, At(base, 0, size),
                       0, (nmemb - 1) * size, (nmemb - 1) * size, size),
        0, size)

RECURSIVE _gnutls_qsort(_, _, _, _)
(* Mutation of _gnutls_qsort: the second recursive call is left out.       *)
_gnutls_qsort_first_half_only(s, base, nmemb, size) ==
    IF nmemb <= 1 THEN base
    ELSE LET part == _gnutls_partition(s, base, nmemb, size)
             lcount == part.pivot + 1
         IN  _gnutls_qsort(s, SubSeq(part.base, 1, lcount), lcount, size)
             \o SubSeq(part.base, part.pivot + 2, nmemb)

(* The two recursive calls, on base[0 .. lcount-1] and on the records from *)
(* pivot + 1 on; part is what _gnutls_partition left.                      *)
qsort_halves(s, part, nmemb, size) ==
    _gnutls_qsort(s,
        SubSeq(part.base, 1, IF part.pivot < nmemb THEN part.pivot + 1
                                                   ELSE part.pivot),
        IF part.pivot < nmemb THEN part.pivot + 1 ELSE part.pivot, size)
    \o _gnutls_qsort(s, SubSeq(part.base, part.pivot + 2, nmemb),
                     nmemb - part.pivot - 1, size)

_gnutls_qsort(s, base, nmemb, size) ==
    IF nmemb <= 1 THEN base
    ELSE qsort_halves(s, _gnutls_partition(s, base, nmemb, size), nmemb, size)

(***************************************************************************)
(* _gnutls_supported_ciphersuites.  alloc is the outcome of the two        *)
(* allocations: "ok", or the one that returned NULL.  The result buffer    *)
(* has room for the whole table; `ciphers` below is its filled part,       *)
(* ciphers[0 .. j-1].  The value is [ret, assigned, ciphers]: the return   *)
(* value, whether *_ciphers was assigned, and what it was assigned.        *)
(***************************************************************************)
tmp_ciphers == [i \in 1..CIPHER_SUITES_COUNT |-> cs_algorithms[i].id]

(* Mutations of suite_is_removed: the version test left out; the private   *)
(* test left out.                                                          *)
suite_is_removed_no_version_test(s, version, c) ==
    \/ s.enable_private = 0 /\ c[1] = 255
    \/ _gnutls_kx_priority(s, _gnutls_cipher_suite_get_kx_algo(c)) < 0
    \/ _gnutls_mac_priority(s, _gnutls_cipher_suite_get_mac_algo(c)) < 0
    \/ _gnutls_cipher_priority(s, _gnutls_cipher_suite_get_cipher_algo(c)) < 0

suite_is_removed_no_private_test(s, version, c) ==
    \/ _gnutls_cipher_suite_get_version(c) > version
    \/ _gnutls_kx_priority(s, _gnutls_cipher_suite_get_kx_algo(c)) < 0
    \/ _gnutls_mac_priority(s, _gnutls_cipher_suite_get_mac_algo(c)) < 0
    \/ _gnutls_cipher_priority(s, _gnutls_cipher_suite_get_cipher_algo(c)) < 0

(* The tests of the filter loop that end in `continue`.                    *)
suite_is_removed(s, version, c) ==
    \/ s.enable_private = 0 /\ c[1] = 255
    \/ _gnutls_cipher_suite_get_version(c) > version
    \/ _gnutls_kx_priority(s, _gnutls_cipher_suite_get_kx_algo(c)) < 0
    \/ _gnutls_mac_priority(s, _gnutls_cipher_suite_get_mac_algo(c)) < 0
    \/ _gnutls_cipher_priority(s, _gnutls_cipher_suite_get_cipher_algo(c)) < 0

(* Mutation of supported_ciphersuites_loop: the loop stops one entry       *)
(* before the end of the table.                                            *)
RECURSIVE supported_ciphersuites_loop_short(_, _, _, _)
supported_ciphersuites_loop_short(s, version, i, out) ==
    IF i < CIPHER_SUITES_COUNT - 1
    THEN supported_ciphersuites_loop_short(s, version, i + 1,
             IF suite_is_removed(s, version, tmp_ciphers[i + 1])
             THEN out
             ELSE Append(out, tmp_ciphers[i + 1]))
    ELSE out

RECURSIVE supported_ciphersuites_loop(_, _, _, _)
supported_ciphersuites_loop(s, version, i, out) ==
    IF i < CIPHER_SUITES_COUNT
    THEN supported_ciphersuites_loop(s, version, i + 1,
             IF suite_is_removed(s, version, tmp_ciphers[i + 1])
             THEN out
             ELSE Append(out, tmp_ciphers[i + 1]))
    ELSE out

(* Mutation of _gnutls_supported_ciphersuites: an empty result is          *)
(* returned as a count of 0 with the buffer handed out.                    *)
_gnutls_supported_ciphersuites_zero(s, alloc) ==
    IF alloc # "ok"
    THEN [ret |-> GNUTLS_E_MEMORY_ERROR, assigned |-> FALSE, ciphers |-> <<>>]
    ELSE LET out == supported_ciphersuites_loop(s, gnutls_protocol_get_version(s),
                                                0, <<>>)
         IN  [ret |-> Len(out), assigned |-> TRUE, ciphers |-> out]

(* After the loop: ret_count = j entries were kept.  None is an error and *)
(* the buffer is freed; otherwise the buffer is handed to the caller.      *)
supported_ciphersuites_end(out) ==
    IF Len(out) = 0
    THEN [ret |-> GNUTLS_E_NO_CIPHER_SUITES, assigned |-> FALSE, ciphers |-> <<>>]
    ELSE [ret |-> Len(out), assigned |-> TRUE, ciphers |-> out]

_gnutls_supported_ciphersuites(s, alloc) ==
    IF CIPHER_SUITES_COUNT = 0
    THEN [ret |-> 0, assigned |-> FALSE, ciphers |-> <<>>]
    ELSE IF alloc # "ok"
    THEN [ret |-> GNUTLS_E_MEMORY_ERROR, assigned |-> FALSE, ciphers |-> <<>>]
    ELSE supported_ciphersuites_end(
             supported_ciphersuites_loop(s, gnutls_protocol_get_version(s),
                                         0, <<>>))

sizeof_GNUTLS_CipherSuite == 2

(* r is what _gnutls_supported_ciphersuites returned, count = r.ret.       *)
sort_supported_ciphersuites(s, r) ==
    IF r.ret <= 0 THEN r
    ELSE [ret |-> r.ret, assigned |-> TRUE,
          ciphers |-> _gnutls_qsort(s, r.ciphers, r.ret,
                                    sizeof_GNUTLS_CipherSuite)]

_gnutls_supported_ciphersuites_sorted(s, alloc) ==
    sort_supported_ciphersuites(s, _gnutls_supported_ciphersuites(s, alloc))

(***************************************************************************)
(* Compression methods.  _gnutls_compression_algorithms is a global array  *)
(* of MAX_COMP_METHODS entries, ended by an entry whose name is NULL; the  *)
(* model keeps the entries before that one.  Its initialiser depends on    *)
(* HAVE_LIBZ.  An entry is [name, id, num, window_bits, mem_level,         *)
(* comp_level]; the name keeps its GNUTLS_COMP_ prefix as first component. *)
(***************************************************************************)
gnutls_compression_method ==
    [ GNUTLS_COMP_NULL |-> 1,
      GNUTLS_COMP_ZLIB |-> 2,
      GNUTLS_COMP_LZO |-> 3 ]

GNUTLS_COMP_NULL == gnutls_compression_method.GNUTLS_COMP_NULL
GNUTLS_COMP_ZLIB == gnutls_compression_method.GNUTLS_COMP_ZLIB
GNUTLS_COMP_LZO == gnutls_compression_method.GNUTLS_COMP_LZO

GNUTLS_E_NO_COMPRESSION_ALGORITHMS == gnutls_error_codes.GNUTLS_E_NO_COMPRESSION_ALGORITHMS

MAX_COMP_METHODS == 5

MIN_PRIVATE_COMP_ALGO == 239

GNUTLS_COMPRESSION_ENTRY(name, id, num, wb, ml, cl) ==
    [ name |-> <<"GNUTLS_COMP_", name>>, id |-> id, num |-> num,
      window_bits |-> wb, mem_level |-> ml, comp_level |-> cl ]

compression_algorithms_initializer(HAVE_LIBZ) ==
    << GNUTLS_COMPRESSION_ENTRY("NULL", GNUTLS_COMP_NULL, 0, 0, 0, 0) >>
    \o (IF HAVE_LIBZ
        THEN << GNUTLS_COMPRESSION_ENTRY("ZLIB", GNUTLS_COMP_ZLIB, 1, 15, 8, 3) >>
        ELSE << >>)

(* The entry that the gnutls-extra initialisation adds to the array: LZO,  *)
(* with a wire number of the private range.                                *)
lzo_entry == GNUTLS_COMPRESSION_ENTRY("LZO", GNUTLS_COMP_LZO, 242, -1, -1, -1)

CompressionTables ==
    { compression_algorithms_initializer(h) \o extra :
          h \in BOOLEAN, extra \in { << >>, << lzo_entry >> } }

(* The position of the first entry with the given id, 0 when the loop ends *)
(* without a match.                                                        *)
GNUTLS_COMPRESSION_ALG_LOOP(algorithm) ==
    LET m == { p \in 1..Len(_gnutls_compression_algorithms) :
                 _gnutls_compression_algorithms[p].id = algorithm }
    IN  IF m = {} THEN 0 ELSE CHOOSE p \in m : \A q \in m : p <= q

(* A mutation of the loop by wire number: it compares the id.              *)
GNUTLS_COMPRESSION_ALG_LOOP_NUM_by_id(num) == GNUTLS_COMPRESSION_ALG_LOOP(num)

GNUTLS_COMPRESSION_ALG_LOOP_NUM(num) ==
    LET m == { p \in 1..Len(_gnutls_compression_algorithms) :
                 _gnutls_compression_algorithms[p].num = num }
    IN  IF m = {} THEN 0 ELSE CHOOSE p \in m : \A q \in m : p <= q

(* What the accessors do with the position found: the entry's field, or    *)
(* the initial value of ret.                                               *)
compression_field(p, field, initial) ==
    IF p = 0 THEN initial ELSE _gnutls_compression_algorithms[p][field]

gnutls_compression_get_name(algorithm) ==
    LET p == GNUTLS_COMPRESSION_ALG_LOOP(algorithm)
    IN  IF p = 0 THEN NULL
        ELSE SkipPrefix(_gnutls_compression_algorithms[p].name)

_gnutls_compression_get_num(algorithm) ==
    compression_field(GNUTLS_COMPRESSION_ALG_LOOP(algorithm), "num", -1)

_gnutls_compression_get_wbits(algorithm) ==
    compression_field(GNUTLS_COMPRESSION_ALG_LOOP(algorithm), "window_bits", -1)

_gnutls_compression_get_mem_level(algorithm) ==
    compression_field(GNUTLS_COMPRESSION_ALG_LOOP(algorithm), "mem_level", -1)

_gnutls_compression_get_comp_level(algorithm) ==
    compression_field(GNUTLS_COMPRESSION_ALG_LOOP(algorithm), "comp_level", -1)

_gnutls_compression_get_id(num) ==
    compression_field(GNUTLS_COMPRESSION_ALG_LOOP_NUM(num), "id", -1)

(***************************************************************************)
(* _gnutls_supported_compression_methods.  alloc is the outcome of         *)
(* gnutls_malloc: "ok" or a NULL result.  The value is [ret, comp]: the    *)
(* return value and what *comp is left as, NULL or the j bytes written.    *)
(***************************************************************************)
_gnutls_compression_priority(s, algorithm) ==
    priority_loop(s.compression_method_priority, algorithm, 0)

uint8(tmp) == tmp % 256

(* A mutation of the test: private methods are never removed.              *)
method_is_removed_only_unknown(s, tmp) == tmp = -1

(* The test that ends in `continue`.                                       *)
method_is_removed(s, tmp) ==
    tmp = -1 \/ (s.enable_private = 0 /\ tmp >= MIN_PRIVATE_COMP_ALGO)

RECURSIVE supported_compression_methods_loop(_, _, _)
supported_compression_methods_loop(s, i, comp) ==
    IF i < s.compression_method_priority.algorithms
    THEN supported_compression_methods_loop(s, i + 1,
             IF method_is_removed(s, _gnutls_compression_get_num(
                    s.compression_method_priority.priority[i + 1]))
             THEN comp
             ELSE Append(comp, uint8(_gnutls_compression_get_num(
                      s.compression_method_priority.priority[i + 1]))))
    ELSE comp

(* A mutation of the end of the function: the j == 0 test is left out.     *)
supported_compression_methods_end_count(comp) ==
    [ret |-> Len(comp), comp |-> comp, buffer |-> "allocated"]

(* After the loop: j = Len(comp) bytes were written.  `buffer` is what     *)
(* became of the memory gnutls_malloc returned.                            *)
supported_compression_methods_end(comp) ==
    IF Len(comp) = 0
    THEN [ret |-> GNUTLS_E_NO_COMPRESSION_ALGORITHMS, comp |-> NULL,
          buffer |-> "freed"]
    ELSE [ret |-> Len(comp), comp |-> comp, buffer |-> "allocated"]

_gnutls_supported_compression_methods(s, alloc) ==
    IF alloc # "ok"
    THEN [ret |-> GNUTLS_E_MEMORY_ERROR, comp |-> NULL, buffer |-> "none"]
    ELSE supported_compression_methods_end(
             supported_compression_methods_loop(s, 0, << >>))

(***************************************************************************)
(* The registries.  Each ..._LOOP is the position of the first entry with  *)
(* the id looked for, 0 when the scan reaches the end of the table; an     *)
(* accessor returns a field of that entry, or the value ret started with.  *)
(***************************************************************************)
GNUTLS_HASH_ALG_LOOP(algorithm) ==
    LET m == { p \in 1..Len(hash_algorithms) : hash_algorithms[p].id = algorithm }
    IN  IF m = {} THEN 0 ELSE CHOOSE p \in m : \A q \in m : p <= q

hash_field(p, field, initial) ==
    IF p = 0 THEN initial ELSE hash_algorithms[p][field]

_gnutls_mac_get_digest_size(algorithm) ==
    hash_field(GNUTLS_HASH_ALG_LOOP(algorithm), "digestsize", 0)

gnutls_mac_get_name(algorithm) ==
    hash_field(GNUTLS_HASH_ALG_LOOP(algorithm), "name", NULL)

GNUTLS_ALG_LOOP(algorithm) ==
    LET m == { p \in 1..Len(algorithms) : algorithms[p].id = algorithm }
    IN  IF m = {} THEN 0 ELSE CHOOSE p \in m : \A q \in m : p <= q

cipher_field(p, field, initial) ==
    IF p = 0 THEN initial ELSE algorithms[p][field]

(* A mutation of the block size accessor: it reads the iv field.           *)
_gnutls_cipher_get_block_size_from_iv(algorithm) ==
    cipher_field(GNUTLS_ALG_LOOP(algorithm), "iv", 0)

_gnutls_cipher_get_block_size(algorithm) ==
    cipher_field(GNUTLS_ALG_LOOP(algorithm), "blocksize", 0)

_gnutls_cipher_is_block(algorithm) ==
    cipher_field(GNUTLS_ALG_LOOP(algorithm), "block", 0)

(* A mutation of the key size accessor: ret starts as -1.                  *)
gnutls_cipher_get_key_size_or_minus_one(algorithm) ==
    cipher_field(GNUTLS_ALG_LOOP(algorithm), "keysize", -1)

gnutls_cipher_get_key_size(algorithm) ==
    cipher_field(GNUTLS_ALG_LOOP(algorithm), "keysize", 0)

_gnutls_cipher_get_iv_size(algorithm) ==
    cipher_field(GNUTLS_ALG_LOOP(algorithm), "iv", 0)

_gnutls_cipher_get_export_flag(algorithm) ==
    cipher_field(GNUTLS_ALG_LOOP(algorithm), "export_flag", 0)

gnutls_cipher_get_name(algorithm) ==
    cipher_field(GNUTLS_ALG_LOOP(algorithm), "name", NULL)

(* The key-exchange table: a global array of MAX_KX_ALGOS entries          *)
(* [name, algorithm] (the auth_struct pointer is left out), whose first    *)
(* entry depends on ENABLE_ANON.                                           *)
MAX_KX_ALGOS == 10

gnutls_kx_algo_entry(name, algorithm) == [ name |-> name, algorithm |-> algorithm ]

kx_algorithms_initializer(ENABLE_ANON) ==
    (IF ENABLE_ANON THEN << gnutls_kx_algo_entry("Anon DH", GNUTLS_KX_ANON_DH) >>
                    ELSE << >>)
    \o << gnutls_kx_algo_entry("RSA", GNUTLS_KX_RSA),
          gnutls_kx_algo_entry("RSA EXPORT", GNUTLS_KX_RSA_EXPORT),
          gnutls_kx_algo_entry("DHE RSA", GNUTLS_KX_DHE_RSA),
          gnutls_kx_algo_entry("DHE DSS", GNUTLS_KX_DHE_DSS) >>

KxTables == { kx_algorithms_initializer(a) : a \in BOOLEAN }

GNUTLS_KX_ALG_LOOP(algorithm) ==
    LET m == { p \in 1..Len(_gnutls_kx_algorithms) :
                 _gnutls_kx_algorithms[p].algorithm = algorithm }
    IN  IF m = {} THEN 0 ELSE CHOOSE p \in m : \A q \in m : p <= q

gnutls_kx_get_name(algorithm) ==
    LET p == GNUTLS_KX_ALG_LOOP(algorithm)
    IN  IF p = 0 THEN NULL ELSE _gnutls_kx_algorithms[p].name

(***************************************************************************)
(* Protocol versions: entries [name, id, major, minor, supported].         *)
(***************************************************************************)
gnutls_version_entry(name, id, major, minor, supported) ==
    [ name |-> name, id |-> id, major |-> major, minor |-> minor,
      supported |-> supported ]

sup_versions ==
    << gnutls_version_entry("SSL 3.0", GNUTLS_SSL3, 3, 0, 1),
       gnutls_version_entry("TLS 1.0", GNUTLS_TLS1, 3, 1, 1) >>

GNUTLS_VERSION_ALG_LOOP(version) ==
    LET m == { p \in 1..Len(sup_versions) : sup_versions[p].id = version }
    IN  IF m = {} THEN 0 ELSE CHOOSE p \in m : \A q \in m : p <= q

version_field(p, field, initial) ==
    IF p = 0 THEN initial ELSE sup_versions[p][field]

gnutls_protocol_get_name(version) ==
    version_field(GNUTLS_VERSION_ALG_LOOP(version), "name", NULL)

_gnutls_version_get_minor(version) ==
    version_field(GNUTLS_VERSION_ALG_LOOP(version), "minor", -1)

_gnutls_version_get_major(version) ==
    version_field(GNUTLS_VERSION_ALG_LOOP(version), "major", -1)

(* A protocol priority list whose array pointer is NULL has priority =     *)
(* NULL here, whatever its `algorithms` says.                              *)
_gnutls_version_priority(s, version) ==
    IF s.protocol_priority.priority = NULL
    THEN -1
    ELSE priority_loop(s.protocol_priority, version, 0)

(* A mutation of the rest of _gnutls_version_is_supported: the table's     *)
(* answer is not looked at.                                                *)
version_is_supported_end_priority_only(s, version, ret_supported) ==
    IF _gnutls_version_priority(s, version) < 0 THEN 0 ELSE 1

(* The rest of _gnutls_version_is_supported, ret being the entry's         *)
(* `supported`, or 0 when the table has no entry.                          *)
version_is_supported_end(s, version, ret_supported) ==
    IF ret_supported = 0 THEN 0
    ELSE IF _gnutls_version_priority(s, version) < 0 THEN 0 ELSE 1

_gnutls_version_is_supported(s, version) ==
    version_is_supported_end(s, version,
        version_field(GNUTLS_VERSION_ALG_LOOP(version), "supported", 0))

(***************************************************************************)
(* Credential types of the key exchanges: entries [algorithm, client_type, *)
(* server_type]; the table ends at the entry whose algorithm is 0.         *)
(***************************************************************************)
gnutls_credentials_type ==
    [ GNUTLS_CRD_CERTIFICATE |-> 1,
      GNUTLS_CRD_ANON |-> 2,
      GNUTLS_CRD_SRP |-> 3 ]

GNUTLS_CRD_CERTIFICATE == gnutls_credentials_type.GNUTLS_CRD_CERTIFICATE
GNUTLS_CRD_ANON == gnutls_credentials_type.GNUTLS_CRD_ANON
GNUTLS_CRD_SRP == gnutls_credentials_type.GNUTLS_CRD_SRP

gnutls_cred_map(algorithm, client_type, server_type) ==
    [ algorithm |-> algorithm, client_type |-> client_type,
      server_type |-> server_type ]

cred_mappings ==
    << gnutls_cred_map(GNUTLS_KX_ANON_DH, GNUTLS_CRD_ANON, GNUTLS_CRD_ANON),
       gnutls_cred_map(GNUTLS_KX_RSA, GNUTLS_CRD_CERTIFICATE, GNUTLS_CRD_CERTIFICATE),
       gnutls_cred_map(GNUTLS_KX_RSA_EXPORT, GNUTLS_CRD_CERTIFICATE, GNUTLS_CRD_CERTIFICATE),
       gnutls_cred_map(GNUTLS_KX_DHE_DSS, GNUTLS_CRD_CERTIFICATE, GNUTLS_CRD_CERTIFICATE),
       gnutls_cred_map(GNUTLS_KX_DHE_RSA, GNUTLS_CRD_CERTIFICATE, GNUTLS_CRD_CERTIFICATE),
       gnutls_cred_map(GNUTLS_KX_SRP, GNUTLS_CRD_SRP, GNUTLS_CRD_SRP),
       gnutls_cred_map(GNUTLS_KX_SRP_RSA, GNUTLS_CRD_SRP, GNUTLS_CRD_CERTIFICATE),
       gnutls_cred_map(GNUTLS_KX_SRP_DSS, GNUTLS_CRD_SRP, GNUTLS_CRD_CERTIFICATE),
       gnutls_cred_map(0, 0, 0) >>

(* GNUTLS_KX_MAP_LOOP visits the entries before the first one whose        *)
(* algorithm is 0: positions 1 .. kx_map_end.                              *)
kx_map_end ==
    (CHOOSE p \in 1..Len(cred_mappings) :
        /\ cred_mappings[p].algorithm = 0
        /\ \A q \in 1..(p - 1) : cred_mappings[q].algorithm # 0) - 1

(* A mutation of the server loop: without the break, the last match.       *)
GNUTLS_KX_MAP_ALG_LOOP_SERVER_no_break(type) ==
    LET m == { p \in 1..kx_map_end : cred_mappings[p].server_type = type }
    IN  IF m = {} THEN 0 ELSE CHOOSE p \in m : \A q \in m : p >= q

GNUTLS_KX_MAP_ALG_LOOP_SERVER(type) ==
    LET m == { p \in 1..kx_map_end : cred_mappings[p].server_type = type }
    IN  IF m = {} THEN 0 ELSE CHOOSE p \in m : \A q \in m : p <= q

GNUTLS_KX_MAP_ALG_LOOP_CLIENT(type) ==
    LET m == { p \in 1..kx_map_end : cred_mappings[p].client_type = type }
    IN  IF m = {} THEN 0 ELSE CHOOSE p \in m : \A q \in m : p <= q

cred_field(p, field, initial) ==
    IF p = 0 THEN initial ELSE cred_mappings[p][field]

(* A mutation of _gnutls_map_kx_get_kx: the last matching entry.           *)
_gnutls_map_kx_get_kx_last_match(type, server) == cred_field(GNUTLS_KX_MAP_ALG_LOOP_SERVER_no_break(type), "algorithm", -1)

_gnutls_map_kx_get_kx(type, server) ==
    IF server # 0
    THEN cred_field(GNUTLS_KX_MAP_ALG_LOOP_SERVER(type), "algorithm", -1)
    ELSE cred_field(GNUTLS_KX_MAP_ALG_LOOP_SERVER(type), "algorithm", -1)

(* The loop of _gnutls_map_kx_get_cred has no break: the last entry of the *)
(* algorithm decides.                                                      *)
kx_map_last(algorithm) ==
    LET m == { p \in 1..kx_map_end : cred_mappings[p].algorithm = algorithm }
    IN  IF m = {} THEN 0 ELSE CHOOSE p \in m : \A q \in m : p >= q

(* A mutation of _gnutls_map_kx_get_cred: the two roles exchanged.         *)
_gnutls_map_kx_get_cred_roles_exchanged(algorithm, server) ==
    IF server # 0
    THEN cred_field(kx_map_last(algorithm), "client_type", -1)
    ELSE cred_field(kx_map_last(algorithm), "server_type", -1)

_gnutls_map_kx_get_cred(algorithm, server) ==
    IF server # 0
    THEN cred_field(kx_map_last(algorithm), "server_type", -1)
    ELSE cred_field(kx_map_last(algorithm), "client_type", -1)

(***************************************************************************)
(* The sessions explored.                                                  *)
(***************************************************************************)
MaxKxLen == 2

BoundedSeq(S, n) == UNION { [1..k -> S] : k \in 0..n }

Injective(l) == \A i, j \in 1..Len(l) : i # j => l[i] # l[j]

Priority(list, n) == [priority |-> list, algorithms |-> n]

KxInputs == { GNUTLS_KX_DHE_RSA, GNUTLS_KX_RSA }

KxPriorities == { Priority(l, Len(l)) : l \in BoundedSeq(KxInputs, MaxKxLen) }

(* A list set again with fewer entries keeps the old ones past             *)
(* `algorithms`: the last list below has its second entry out of use.      *)
MacPriorities ==
    { Priority(<<>>, 0),
      Priority(<<GNUTLS_MAC_SHA>>, 1),
      Priority(<<GNUTLS_MAC_SHA, GNUTLS_MAC_MD5>>, 2),
      Priority(<<GNUTLS_MAC_MD5, GNUTLS_MAC_SHA>>, 2),
      Priority(<<GNUTLS_MAC_MD5, GNUTLS_MAC_SHA>>, 1) }

(* Cipher lists: the empty list, one cipher, every ordering of three       *)
(* ciphers, and every such ordering with the other six ciphers of the      *)
(* cipher table listed after the first entry (nine distinct ciphers).      *)
CipherInputs ==
    { GNUTLS_CIPHER_AES_256_CBC, GNUTLS_CIPHER_AES_128_CBC, GNUTLS_CIPHER_3DES_CBC }

OtherCiphers ==
    SelectSeq([i \in 1..Len(algorithms) |-> algorithms[i].id],
              LAMBDA c : c \notin CipherInputs)

CipherLists ==
    LET perms == { l \in [1..Cardinality(CipherInputs) -> CipherInputs] :
                     Injective(l) }
    IN  { <<>> } \cup { <<c>> : c \in CipherInputs } \cup perms
        \cup { <<Head(l)>> \o OtherCiphers \o Tail(l) : l \in perms }

CipherPriorities == { Priority(l, Len(l)) : l \in CipherLists }

Versions == { GNUTLS_SSL3, GNUTLS_TLS1 }

Sessions ==
    [ kx_algorithm_priority : KxPriorities,
      cipher_algorithm_priority : CipherPriorities,
      mac_algorithm_priority : MacPriorities,
      enable_private : { 0, 1 },
      version : Versions ]

KxAlgorithms == 1..8
MacAlgorithms == { hash_algorithms[i].id : i \in 1..Len(hash_algorithms) }
CipherAlgorithms == { algorithms[i].id : i \in 1..Len(algorithms) }
Allocs == { "ok", "alloca", "malloc" }

(***************************************************************************)
(* The state machine: a session, and the calls made on it, one at a time.  *)
(***************************************************************************)
Unassigned == [assigned |-> FALSE, list |-> <<>>]

(* The build with HAVE_LIBZ and ENABLE_ANON; the suite negotiation reads   *)
(* neither global table.                                                   *)
DefaultBuild ==
    /\ _gnutls_compression_algorithms = compression_algorithms_initializer(TRUE)
    /\ _gnutls_kx_algorithms = kx_algorithms_initializer(TRUE)

Init ==
    /\ session \in Sessions
    /\ call = [fn |-> "none"]
    /\ ret = 0
    /\ ciphers = Unassigned
    /\ DefaultBuild
    /\ errno = "0"

KxPriority ==
    \E a \in KxAlgorithms :
        /\ call.fn = "none"
        /\ call' = [fn |-> "_gnutls_kx_priority", algorithm |-> a]
        /\ ret' = _gnutls_kx_priority(session, a)
        /\ UNCHANGED <<session, ciphers, globals, errno>>

CipherPriority ==
    \E a \in CipherAlgorithms :
        /\ call.fn = "none"
        /\ call' = [fn |-> "_gnutls_cipher_priority", algorithm |-> a]
        /\ ret' = _gnutls_cipher_priority(session, a)
        /\ UNCHANGED <<session, ciphers, globals, errno>>

MacPriority ==
    \E a \in MacAlgorithms :
        /\ call.fn = "none"
        /\ call' = [fn |-> "_gnutls_mac_priority", algorithm |-> a]
        /\ ret' = _gnutls_mac_priority(session, a)
        /\ UNCHANGED <<session, ciphers, globals, errno>>

(* A mutation of Returns: the suites are written behind those of the list  *)
(* the caller already holds instead of into a newly allocated one.         *)
Returns_into_the_old_list(r) ==
    /\ ret' = r.ret
    /\ ciphers' = IF r.assigned
                  THEN [assigned |-> TRUE, list |-> ciphers.list \o r.ciphers]
                  ELSE Unassigned

(* The caller passes the address of a fresh pointer variable; r is what    *)
(* the function returns and does to that pointer.                          *)
Returns(r) ==
    /\ ret' = r.ret
    /\ ciphers' = IF r.assigned
                  THEN [assigned |-> TRUE, list |-> r.ciphers]
                  ELSE Unassigned

SupportedCiphersuites ==
    \E alloc \in Allocs :
        /\ call.fn = "none"
        /\ call' = [fn |-> "_gnutls_supported_ciphersuites", alloc |-> alloc]
        /\ Returns(_gnutls_supported_ciphersuites(session, alloc))
        /\ UNCHANGED <<session, globals, errno>>

SupportedCiphersuitesSorted ==
    \E alloc \in Allocs :
        /\ call.fn = "none"
        /\ call' = [fn |-> "_gnutls_supported_ciphersuites_sorted",
                    alloc |-> alloc]
        /\ Returns(_gnutls_supported_ciphersuites_sorted(session, alloc))
        /\ UNCHANGED <<session, globals, errno>>

(* The caller asks a second time, with the result of the first call still  *)
(* at hand.                                                                *)
SupportedCiphersuitesSortedAgain ==
    /\ call.fn = "_gnutls_supported_ciphersuites_sorted"
    /\ "again" \notin DOMAIN call
    /\ call' = [fn |-> "_gnutls_supported_ciphersuites_sorted",
                alloc |-> call.alloc, again |-> TRUE]
    /\ Returns(_gnutls_supported_ciphersuites_sorted(session, call.alloc))
    /\ UNCHANGED <<session, globals, errno>>

(* The caller is done with the result (and frees the list it was given)   *)
(* before it makes the next call.                                          *)
Return ==
    /\ call.fn # "none"
    /\ call' = [fn |-> "none"]
    /\ ret' = 0
    /\ ciphers' = Unassigned
    /\ UNCHANGED <<session, globals, errno>>

Next ==
    \/ Return
    \/ KxPriority
    \/ CipherPriority
    \/ MacPriority
    \/ SupportedCiphersuites
    \/ SupportedCiphersuitesSorted
    \/ SupportedCiphersuitesSortedAgain

Spec == Init /\ [][Next]_vars

(***************************************************************************)
(* The suite resolver: a caller takes a wire id apart with the three       *)
(* getters, asks for the name of the algorithms it got, and asks for the   *)
(* name of the id itself.  `call` keeps the caller's locals: the id, the   *)
(* algorithms read so far and the name looked up by algorithms.  Names can *)
(* also be asked for any three algorithms, and for any id, directly.       *)
(***************************************************************************)
(* The session the resolver's caller holds; no resolver call reads it.     *)
ScenarioSession ==
    [ kx_algorithm_priority |->
          Priority(<<GNUTLS_KX_DHE_RSA, GNUTLS_KX_RSA>>, 2),
      cipher_algorithm_priority |->
          Priority(<<GNUTLS_CIPHER_AES_256_CBC, GNUTLS_CIPHER_AES_128_CBC,
                     GNUTLS_CIPHER_3DES_CBC>>, 3),
      mac_algorithm_priority |-> Priority(<<GNUTLS_MAC_SHA>>, 1),
      enable_private |-> 0,
      version |-> GNUTLS_TLS1 ]

TableIds == { cs_algorithms[p].id : p \in 1..CIPHER_SUITES_COUNT }

UnknownIds == { <<0, 0>>, <<0, 255>>, <<255, 255>> }

Locals(fn, suite, kx, cipher, mac, name) ==
    [ fn |-> fn, suite |-> suite, kx_algorithm |-> kx,
      cipher_algorithm |-> cipher, mac_algorithm |-> mac, name |-> name ]

ResolverInit ==
    /\ session = ScenarioSession
    /\ call = [fn |-> "none"]
    /\ ret = 0
    /\ ciphers = Unassigned
    /\ DefaultBuild
    /\ errno = "0"

GetKxAlgo ==
    \E suite \in TableIds \cup UnknownIds :
        /\ call.fn = "none"
        /\ ret' = _gnutls_cipher_suite_get_kx_algo(suite)
        /\ call' = Locals("_gnutls_cipher_suite_get_kx_algo", suite, ret', 0, 0, NULL)
        /\ UNCHANGED <<session, ciphers, globals, errno>>

GetCipherAlgo ==
    /\ call.fn = "_gnutls_cipher_suite_get_kx_algo"
    /\ ret' = _gnutls_cipher_suite_get_cipher_algo(call.suite)
    /\ call' = [call EXCEPT !.fn = "_gnutls_cipher_suite_get_cipher_algo",
                            !.cipher_algorithm = ret']
    /\ UNCHANGED <<session, ciphers, globals, errno>>

GetMacAlgo ==
    /\ call.fn = "_gnutls_cipher_suite_get_cipher_algo"
    /\ ret' = _gnutls_cipher_suite_get_mac_algo(call.suite)
    /\ call' = [call EXCEPT !.fn = "_gnutls_cipher_suite_get_mac_algo",
                            !.mac_algorithm = ret']
    /\ UNCHANGED <<session, ciphers, globals, errno>>

GetVersion ==
    \E suite \in TableIds \cup UnknownIds :
        /\ call.fn = "none"
        /\ ret' = _gnutls_cipher_suite_get_version(suite)
        /\ call' = Locals("_gnutls_cipher_suite_get_version", suite, 0, 0, 0, NULL)
        /\ UNCHANGED <<session, ciphers, globals, errno>>

GetNameOfAlgorithms ==
    /\ call.fn = "_gnutls_cipher_suite_get_mac_algo"
    /\ ret' = gnutls_cipher_suite_get_name(call.kx_algorithm,
                                           call.cipher_algorithm,
                                           call.mac_algorithm)
    /\ call' = [call EXCEPT !.fn = "gnutls_cipher_suite_get_name",
                            !.name = ret']
    /\ UNCHANGED <<session, ciphers, globals, errno>>

GetNameOfSuite ==
    /\ call.fn = "gnutls_cipher_suite_get_name"
    /\ call.suite # NULL
    /\ ret' = _gnutls_cipher_suite_get_name(call.suite)
    /\ call' = [call EXCEPT !.fn = "_gnutls_cipher_suite_get_name"]
    /\ UNCHANGED <<session, ciphers, globals, errno>>

GetNameOfAnyAlgorithms ==
    \E kx \in KxAlgorithms, cipher \in CipherAlgorithms, mac \in MacAlgorithms :
        /\ call.fn = "none"
        /\ ret' = gnutls_cipher_suite_get_name(kx, cipher, mac)
        /\ call' = Locals("gnutls_cipher_suite_get_name", NULL, kx, cipher, mac, ret')
        /\ UNCHANGED <<session, ciphers, globals, errno>>

ResolverNext ==
    \/ Return
    \/ GetKxAlgo
    \/ GetCipherAlgo
    \/ GetMacAlgo
    \/ GetVersion
    \/ GetNameOfAlgorithms
    \/ GetNameOfSuite
    \/ GetNameOfAnyAlgorithms

ResolverSpec == ResolverInit /\ [][ResolverNext]_vars

(***************************************************************************)
(* Vocabulary of the properties, stated on the tables and the session      *)
(* without the code's loops.                                               *)
(***************************************************************************)
Occurrences(list, a) ==
    { i \in 0..(list.algorithms - 1) : list.priority[i + 1] = a }

Rank(list, a) ==
    LET occ == Occurrences(list, a)
    IN  IF occ = {} THEN -1 ELSE CHOOSE i \in occ : \A k \in occ : i <= k

TablePosition(suite) ==
    CHOOSE p \in 1..CIPHER_SUITES_COUNT : cs_algorithms[p].id = suite

EntryOf(suite) == cs_algorithms[TablePosition(suite)]

InTable(suite) == \E p \in 1..CIPHER_SUITES_COUNT : cs_algorithms[p].id = suite

KxRank(e) == Rank(session.kx_algorithm_priority, e.kx_algorithm)
CipherRank(e) == Rank(session.cipher_algorithm_priority, e.block_algorithm)
MacRank(e) == Rank(session.mac_algorithm_priority, e.mac_algorithm)

Score(e) == (KxRank(e) + 1) * 64 + (CipherRank(e) + 1) * 8 + MacRank(e)

Passes(e) ==
    /\ session.enable_private = 0 => e.id[1] # 255
    /\ e.version <= session.version
    /\ KxRank(e) >= 0
    /\ MacRank(e) >= 0
    /\ CipherRank(e) >= 0

Offerable == SelectSeq(cs_algorithms, Passes)

OfferableIds == [k \in 1..Len(Offerable) |-> Offerable[k].id]

Unsorted == call.fn = "_gnutls_supported_ciphersuites"
Sorted == call.fn = "_gnutls_supported_ciphersuites_sorted"

(***************************************************************************)
(* The registry lookups: every accessor is called with ids of its table    *)
(* and with ids the table does not hold, in every build of the two global  *)
(* tables.                                                                 *)
(***************************************************************************)
MacIds == 0..4
CipherIds == (0..8) \cup { GNUTLS_CIPHER_RC2_40_CBC, GNUTLS_CIPHER_DES_CBC, 92 }
KxIds == 0..9
CompressionIds == 0..4
CompressionNums == { -1, 0, 1, 2, 242, 255 }
VersionIds == 0..3
CredentialTypes == 0..4

RegistryInit ==
    /\ session = ScenarioSession
    /\ call = [fn |-> "none"]
    /\ ret = 0
    /\ ciphers = Unassigned
    /\ _gnutls_compression_algorithms \in CompressionTables
    /\ _gnutls_kx_algorithms \in KxTables
    /\ errno = "0"

(* A lookup is called with one argument.                                   *)
Called(fn, algorithm) ==
    /\ call.fn = "none"
    /\ call' = [fn |-> fn, algorithm |-> algorithm]
    /\ UNCHANGED <<session, ciphers, globals, errno>>

MacGetDigestSize ==
    \E a \in MacIds :
        /\ Called("_gnutls_mac_get_digest_size", a)
        /\ ret' = _gnutls_mac_get_digest_size(a)

MacGetName ==
    \E a \in MacIds :
        /\ Called("gnutls_mac_get_name", a)
        /\ ret' = gnutls_mac_get_name(a)

CipherGetBlockSize ==
    \E a \in CipherIds :
        /\ Called("_gnutls_cipher_get_block_size", a)
        /\ ret' = _gnutls_cipher_get_block_size(a)

CipherIsBlock ==
    \E a \in CipherIds :
        /\ Called("_gnutls_cipher_is_block", a)
        /\ ret' = _gnutls_cipher_is_block(a)

CipherGetKeySize ==
    \E a \in CipherIds :
        /\ Called("gnutls_cipher_get_key_size", a)
        /\ ret' = gnutls_cipher_get_key_size(a)

CipherGetIvSize ==
    \E a \in CipherIds :
        /\ Called("_gnutls_cipher_get_iv_size", a)
        /\ ret' = _gnutls_cipher_get_iv_size(a)

CipherGetExportFlag ==
    \E a \in CipherIds :
        /\ Called("_gnutls_cipher_get_export_flag", a)
        /\ ret' = _gnutls_cipher_get_export_flag(a)

CipherGetName ==
    \E a \in CipherIds :
        /\ Called("gnutls_cipher_get_name", a)
        /\ ret' = gnutls_cipher_get_name(a)

KxGetName ==
    \E a \in KxIds :
        /\ Called("gnutls_kx_get_name", a)
        /\ ret' = gnutls_kx_get_name(a)

CompressionGetName ==
    \E a \in CompressionIds :
        /\ Called("gnutls_compression_get_name", a)
        /\ ret' = gnutls_compression_get_name(a)

CompressionGetNum ==
    \E a \in CompressionIds :
        /\ Called("_gnutls_compression_get_num", a)
        /\ ret' = _gnutls_compression_get_num(a)

CompressionGetWbits ==
    \E a \in CompressionIds :
        /\ Called("_gnutls_compression_get_wbits", a)
        /\ ret' = _gnutls_compression_get_wbits(a)

CompressionGetMemLevel ==
    \E a \in CompressionIds :
        /\ Called("_gnutls_compression_get_mem_level", a)
        /\ ret' = _gnutls_compression_get_mem_level(a)

CompressionGetCompLevel ==
    \E a \in CompressionIds :
        /\ Called("_gnutls_compression_get_comp_level", a)
        /\ ret' = _gnutls_compression_get_comp_level(a)

CompressionGetId ==
    \E num \in CompressionNums :
        /\ Called("_gnutls_compression_get_id", num)
        /\ ret' = _gnutls_compression_get_id(num)

(* A caller maps an algorithm to its wire number and the number back.      *)
CompressionGetIdOfNum ==
    /\ call.fn = "_gnutls_compression_get_num"
    /\ call' = [fn |-> "_gnutls_compression_get_id", algorithm |-> ret,
                of |-> call.algorithm]
    /\ ret' = _gnutls_compression_get_id(ret)
    /\ UNCHANGED <<session, ciphers, globals, errno>>

ProtocolGetName ==
    \E v \in VersionIds :
        /\ Called("gnutls_protocol_get_name", v)
        /\ ret' = gnutls_protocol_get_name(v)

VersionGetMajor ==
    \E v \in VersionIds :
        /\ Called("_gnutls_version_get_major", v)
        /\ ret' = _gnutls_version_get_major(v)

VersionGetMinor ==
    \E v \in VersionIds :
        /\ Called("_gnutls_version_get_minor", v)
        /\ ret' = _gnutls_version_get_minor(v)

CipherSuiteGetName ==
    \E suite \in TableIds \cup UnknownIds :
        /\ Called("_gnutls_cipher_suite_get_name", suite)
        /\ ret' = _gnutls_cipher_suite_get_name(suite)

(* The credential mappings are called with two arguments.                  *)
MapKxGetKx ==
    \E type \in CredentialTypes, server \in { 0, 1, 2 } :
        /\ call.fn = "none"
        /\ call' = [fn |-> "_gnutls_map_kx_get_kx", type |-> type, server |-> server]
        /\ ret' = _gnutls_map_kx_get_kx(type, server)
        /\ UNCHANGED <<session, ciphers, globals, errno>>

(* A caller that asked as a client asks again as a server, keeping the     *)
(* first answer in `client`.                                               *)
MapKxGetKxAsServer ==
    /\ call.fn = "_gnutls_map_kx_get_kx"
    /\ call.server = 0
    /\ call' = [fn |-> "_gnutls_map_kx_get_kx", type |-> call.type, server |-> 1,
                client |-> ret]
    /\ ret' = _gnutls_map_kx_get_kx(call.type, 1)
    /\ UNCHANGED <<session, ciphers, globals, errno>>

(* A caller hands the key exchange it was given for a credential type back *)
(* to _gnutls_map_kx_get_cred, for the same role.                          *)
MapKxGetCredOfKx ==
    /\ call.fn = "_gnutls_map_kx_get_kx"
    /\ call' = [fn |-> "_gnutls_map_kx_get_cred", algorithm |-> ret,
                server |-> call.server, type |-> call.type]
    /\ ret' = _gnutls_map_kx_get_cred(ret, call.server)
    /\ UNCHANGED <<session, ciphers, globals, errno>>

MapKxGetCred ==
    \E a \in KxIds, server \in { 0, 1, 2 } :
        /\ call.fn = "none"
        /\ call' = [fn |-> "_gnutls_map_kx_get_cred", algorithm |-> a,
                    server |-> server]
        /\ ret' = _gnutls_map_kx_get_cred(a, server)
        /\ UNCHANGED <<session, ciphers, globals, errno>>

RegistryNext ==
    \/ Return
    \/ MacGetDigestSize
    \/ MacGetName
    \/ CipherGetBlockSize
    \/ CipherIsBlock
    \/ CipherGetKeySize
    \/ CipherGetIvSize
    \/ CipherGetExportFlag
    \/ CipherGetName
    \/ KxGetName
    \/ CompressionGetName
    \/ CompressionGetNum
    \/ CompressionGetWbits
    \/ CompressionGetMemLevel
    \/ CompressionGetCompLevel
    \/ CompressionGetId
    \/ CompressionGetIdOfNum
    \/ ProtocolGetName
    \/ VersionGetMajor
    \/ VersionGetMinor
    \/ CipherSuiteGetName
    \/ MapKxGetKx
    \/ MapKxGetCredOfKx
    \/ MapKxGetKxAsServer
    \/ MapKxGetCred

RegistrySpec == RegistryInit /\ [][RegistryNext]_vars

(***************************************************************************)
(* Compression methods and protocol versions of a session.  The session    *)
(* holds its compression and protocol priority lists and enable_private;   *)
(* `ciphers` is the caller's uint8* that receives the methods.             *)
(***************************************************************************)
MaxCompLen == 2

(* The three methods of the header and an id that no table holds.          *)
CompressionInputs == { GNUTLS_COMP_NULL, GNUTLS_COMP_ZLIB, GNUTLS_COMP_LZO, 4 }

CompressionPriorities ==
    { Priority(l, Len(l)) : l \in BoundedSeq(CompressionInputs, MaxCompLen) }

(* Protocol priority lists: never set (NULL), set and set again shorter,   *)
(* and one that names a version sup_versions does not hold.                *)
ProtocolPriorities ==
    { Priority(NULL, 0),
      Priority(<<GNUTLS_TLS1, GNUTLS_SSL3>>, 2),
      Priority(<<GNUTLS_SSL3>>, 1),
      Priority(<<GNUTLS_TLS1>>, 1),
      Priority(<<GNUTLS_TLS1, GNUTLS_SSL3>>, 1),
      Priority(<<3, GNUTLS_TLS1>>, 2) }

MethodSessions ==
    [ compression_method_priority : CompressionPriorities,
      protocol_priority : ProtocolPriorities,
      enable_private : { 0, 1 } ]

MethodsInit ==
    /\ session \in MethodSessions
    /\ call = [fn |-> "none"]
    /\ ret = 0
    /\ ciphers = Unassigned
    /\ _gnutls_compression_algorithms \in CompressionTables
    /\ _gnutls_kx_algorithms = kx_algorithms_initializer(TRUE)
    /\ errno = "0"

(* *comp is written on every path: the buffer, or NULL.                    *)
SupportedCompressionMethods ==
    \E alloc \in { "ok", "malloc" } :
        /\ call.fn = "none"
        /\ call' = [fn |-> "_gnutls_supported_compression_methods",
                    alloc |-> alloc,
                    buffer |-> _gnutls_supported_compression_methods(session,
                                                                     alloc).buffer]
        /\ ret' = _gnutls_supported_compression_methods(session, alloc).ret
        /\ ciphers' = [assigned |-> TRUE,
                       list |-> _gnutls_supported_compression_methods(session,
                                                                      alloc).comp]
        /\ UNCHANGED <<session, globals, errno>>

CompressionPriority ==
    \E a \in CompressionInputs :
        /\ call.fn = "none"
        /\ call' = [fn |-> "_gnutls_compression_priority", algorithm |-> a]
        /\ ret' = _gnutls_compression_priority(session, a)
        /\ UNCHANGED <<session, ciphers, globals, errno>>

VersionPriority ==
    \E v \in VersionIds :
        /\ call.fn = "none"
        /\ call' = [fn |-> "_gnutls_version_priority", version |-> v]
        /\ ret' = _gnutls_version_priority(session, v)
        /\ UNCHANGED <<session, ciphers, globals, errno>>

VersionIsSupported ==
    \E v \in VersionIds :
        /\ call.fn = "none"
        /\ call' = [fn |-> "_gnutls_version_is_supported", version |-> v]
        /\ ret' = _gnutls_version_is_supported(session, v)
        /\ UNCHANGED <<session, ciphers, globals, errno>>

MethodsNext ==
    \/ Return
    \/ SupportedCompressionMethods
    \/ CompressionPriority
    \/ VersionPriority
    \/ VersionIsSupported

MethodsSpec == MethodsInit /\ [][MethodsNext]_vars

(***************************************************************************)
(* TCP Fast Open transport (lib/system/fastopen.c), the build that has     *)
(* sendmsg and MSG_FASTOPEN.  session.tfo is session->internals.tfo:       *)
(* [fd, connect_addr, connect_addrlen, connect_only, flags].  A system     *)
(* call returns a value and, when that value is negative, sets errno; a    *)
(* call that succeeds leaves errno as it was.                              *)
(***************************************************************************)
Fails(e) == [ret |-> -1, errno |-> e]

Succeeds(n) == [ret |-> n, errno |-> "unchanged"]

errno_after(e, r) == IF r.ret < 0 THEN r.errno ELSE e

(* One system call as the kernel saw it.                                   *)
syscall(name, flags, msg_name, msg_namelen, r) ==
    [ name |-> name, flags |-> flags, msg_name |-> msg_name,
      msg_namelen |-> msg_namelen, result |-> r ]

(* The end of tfo_writev: r is ret, e is errno.                            *)
tfo_writev_return(p, e, r, syscalls) ==
    [ tfo |-> IF r = 0 \/ e # "EAGAIN" THEN [p EXCEPT !.connect_addrlen = 0] ELSE p,
      errno |-> e,
      ret |-> r,
      syscalls |-> syscalls ]

(* The test of errno after connect(), as it would be without ENOTCONN.     *)
errno_after_connect_without_ENOTCONN(e) == IF e = "EINPROGRESS" THEN "EAGAIN" ELSE e

(* The test of errno after connect(), made whatever connect() returned.    *)
errno_after_connect(e) ==
    IF e = "ENOTCONN" \/ e = "EINPROGRESS" THEN "EAGAIN" ELSE e

(* The block at the label connect_only, as it would be if it cleared       *)
(* connect_only whatever connect() returned.                               *)
tfo_writev_connect_only_forgetting(p, e, conn, syscalls) ==
    tfo_writev_return([p EXCEPT !.connect_only = 0],
                      errno_after_connect(errno_after(e, conn)),
                      conn.ret,
                      Append(syscalls, syscall("connect", {}, p.connect_addr,
                                               p.connect_addrlen, conn)))

(* The block at the label connect_only.                                    *)
tfo_writev_connect_only(p, e, conn, syscalls) ==
    tfo_writev_return(IF conn.ret = 0 THEN [p EXCEPT !.connect_only = 0] ELSE p,
                      errno_after_connect(errno_after(e, conn)),
                      conn.ret,
                      Append(syscalls, syscall("connect", {}, p.connect_addr,
                                               p.connect_addrlen, conn)))

(* tfo_writev after sendmsg with MSG_FASTOPEN, as it would be if           *)
(* EOPNOTSUPP only recorded connect_only and returned.                     *)
tfo_writev_fastopen_without_goto(p, e, sent, conn, syscalls) ==
    IF sent.ret < 0 /\ e = "EINPROGRESS"
    THEN tfo_writev_return(p, "EAGAIN", sent.ret, syscalls)
    ELSE IF sent.ret < 0 /\ e = "EOPNOTSUPP"
    THEN tfo_writev_return([p EXCEPT !.connect_only = 1], e, sent.ret, syscalls)
    ELSE tfo_writev_return(p, e, sent.ret, syscalls)

(* After sendmsg with MSG_FASTOPEN: e is errno, sent what sendmsg did.     *)
tfo_writev_fastopen(p, e, sent, conn, syscalls) ==
    IF sent.ret < 0 /\ e = "EINPROGRESS"
    THEN tfo_writev_return(p, "EAGAIN", sent.ret, syscalls)
    ELSE IF sent.ret < 0 /\ e = "EOPNOTSUPP"
    THEN tfo_writev_connect_only([p EXCEPT !.connect_only = 1], e, conn, syscalls)
    ELSE tfo_writev_return(p, e, sent.ret, syscalls)

(* tfo_writev(ptr, iovec, iovec_cnt) with errno = e at entry; sso, sent    *)
(* and conn are what setsockopt, sendmsg and connect do if called.         *)
tfo_writev(p, e, sso, sent, conn) ==
    IF p.connect_addrlen = 0
    THEN [ tfo |-> p,
           errno |-> errno_after(e, sent),
           ret |-> sent.ret,
           syscalls |-> << syscall("sendmsg", p.flags, "", 0, sent) >> ]
    ELSE IF p.connect_only = 0
    THEN tfo_writev_fastopen(p, errno_after(errno_after(e, sso), sent), sent, conn,
             << syscall("setsockopt", {"TCP_FASTOPEN"}, "", 0, sso),
                syscall("sendmsg", p.flags \cup {"MSG_FASTOPEN"}, p.connect_addr,
                        p.connect_addrlen, sent) >>)
    ELSE tfo_writev_connect_only(p, e, conn, << >>)

tfo_read(p, e, received) ==
    [ errno |-> errno_after(e, received), ret |-> received.ret ]

(* sizeof(session->internals.tfo.connect_addr), a struct sockaddr_storage. *)
sizeof_connect_addr == 128

(* gnutls_transport_set_fastopen past the length test: memcpy copies       *)
(* connect_addrlen bytes, none when the length is 0.                       *)
gnutls_transport_set_fastopen(s, fd, connect_addr, connect_addrlen) ==
    [ s EXCEPT
        !.tfo = [ @ EXCEPT
                    !.connect_addr = IF connect_addrlen = 0 THEN @ ELSE connect_addr,
                    !.connect_addrlen = connect_addrlen,
                    !.fd = fd,
                    !.flags = IF "GNUTLS_NO_SIGNAL" \in s.flags
                              THEN {"MSG_NOSIGNAL"} ELSE {} ],
        !.pull_func = "tfo_read",
        !.pull_timeout_func = "tfo_recv_timeout",
        !.ptr = "&session->internals.tfo",
        !.vec_push_func = "tfo_writev" ]

(***************************************************************************)
(* The transport as a state machine: the application sets fast open on a   *)
(* session, and the library writes and reads through the callbacks.        *)
(***************************************************************************)
Errnos ==
    { "0", "EAGAIN", "EINPROGRESS", "EOPNOTSUPP", "ENOTCONN", "ECONNREFUSED",
      "ENOPROTOOPT" }

SendmsgResults ==
    { Succeeds(0), Succeeds(5), Fails("EAGAIN"), Fails("EINPROGRESS"),
      Fails("EOPNOTSUPP"), Fails("ECONNREFUSED") }

ConnectResults ==
    { Succeeds(0), Fails("EINPROGRESS"), Fails("ENOTCONN"), Fails("EAGAIN"),
      Fails("ECONNREFUSED") }

SetsockoptResults == { Succeeds(0), Fails("ENOPROTOOPT") }

RecvResults == { Succeeds(5), Fails("EAGAIN") }

AddrLens == { 0, 16, sizeof_connect_addr + 1 }

(* A session as gnutls_init leaves it: the tfo structure zeroed, the       *)
(* default transport callbacks.                                            *)
FastopenSessions ==
    { [ tfo |-> [ fd |-> 0, connect_addr |-> "", connect_addrlen |-> 0,
                  connect_only |-> 0, flags |-> {} ],
        flags |-> f,
        pull_func |-> "system_read",
        pull_timeout_func |-> "gnutls_system_recv_timeout",
        ptr |-> "",
        vec_push_func |-> "system_writev" ] :
      f \in { {}, {"GNUTLS_NO_SIGNAL"} } }

FastopenInit ==
    /\ session \in FastopenSessions
    /\ call = [fn |-> "none"]
    /\ ret = 0
    /\ ciphers = Unassigned
    /\ DefaultBuild
    /\ errno \in Errnos

TransportSetFastopen ==
    \E connect_addr \in { "A", "B" }, connect_addrlen \in AddrLens :
        /\ call.fn = "none"
        /\ call' = [fn |-> IF connect_addrlen > sizeof_connect_addr
                           THEN "abort" ELSE "gnutls_transport_set_fastopen",
                    connect_addrlen |-> connect_addrlen]
        /\ session' = IF connect_addrlen > sizeof_connect_addr
                      THEN session
                      ELSE gnutls_transport_set_fastopen(session, 3, connect_addr,
                                                         connect_addrlen)
        /\ UNCHANGED <<ret, ciphers, globals, errno>>

(* The library pushes data, right after fast open was set or later.        *)
TfoWritev ==
    \E sso \in SetsockoptResults, sent \in SendmsgResults, conn \in ConnectResults :
        /\ call.fn \in { "none", "gnutls_transport_set_fastopen" }
        /\ session.vec_push_func = "tfo_writev"
        /\ call' = [fn |-> "tfo_writev",
                    after_set |-> call.fn = "gnutls_transport_set_fastopen",
                    before |-> session.tfo,
                    syscalls |-> tfo_writev(session.tfo, errno, sso, sent, conn).syscalls]
        /\ session' = [session EXCEPT
                          !.tfo = tfo_writev(session.tfo, errno, sso, sent, conn).tfo]
        /\ errno' = tfo_writev(session.tfo, errno, sso, sent, conn).errno
        /\ ret' = tfo_writev(session.tfo, errno, sso, sent, conn).ret
        /\ UNCHANGED <<ciphers, globals>>

TfoRead ==
    \E received \in RecvResults :
        /\ call.fn = "none"
        /\ session.pull_func = "tfo_read"
        /\ call' = [fn |-> "tfo_read"]
        /\ errno' = tfo_read(session.tfo, errno, received).errno
        /\ ret' = tfo_read(session.tfo, errno, received).ret
        /\ UNCHANGED <<session, ciphers, globals>>

(* The callback returned to the library; abort() does not return.          *)
TfoReturn ==
    /\ call.fn \notin { "none", "abort" }
    /\ call' = [fn |-> "none"]
    /\ ret' = 0
    /\ UNCHANGED <<session, ciphers, globals, errno>>

FastopenNext ==
    \/ TransportSetFastopen
    \/ TfoWritev
    \/ TfoRead
    \/ TfoReturn

FastopenSpec == FastopenInit /\ [][FastopenNext]_vars

(***************************************************************************)
(* _gnutls_qsort and _gnutls_partition statement by statement.  The array  *)
(* sorted is ciphers.list; call.stack holds the calls of _gnutls_qsort     *)
(* that are entered next, each with the index of its first record in the   *)
(* array and its nmemb, the left one first; i, j and full are the unsigned *)
(* int byte offsets of _gnutls_partition and ptmp its copy of the pivot    *)
(* record.  call.pc is the statement reached.                              *)
(***************************************************************************)
MaxSortLen == 4

(* i, j and full are unsigned int: their arithmetic wraps around.  The     *)
(* wrap is taken modulo 2^30 instead of 2^32, which integers of 32 bits    *)
(* can hold; a wrapped offset is far above every offset of the array with  *)
(* either modulus.                                                         *)
unsigned_int(x) == x % (2 ^ 30)

SortedIds == { <<0, 4>>, <<0, 5>>, <<0, 10>> }

QsortSession(kx, cipher, mac) ==
    [ kx_algorithm_priority |-> Priority(kx, Len(kx)),
      cipher_algorithm_priority |-> Priority(cipher, Len(cipher)),
      mac_algorithm_priority |-> Priority(mac, Len(mac)),
      enable_private |-> 0,
      version |-> GNUTLS_TLS1 ]

(* Three sessions: one that gives the three suites three scores, one that  *)
(* gives them the same score, one that gives two of them the same score.   *)
QsortSessions ==
    { QsortSession(<<GNUTLS_KX_RSA>>,
                   <<GNUTLS_CIPHER_ARCFOUR_128, GNUTLS_CIPHER_3DES_CBC>>,
                   <<GNUTLS_MAC_SHA, GNUTLS_MAC_MD5>>),
      QsortSession(<<>>, <<>>, <<>>),
      QsortSession(<<GNUTLS_KX_RSA>>, <<>>, <<GNUTLS_MAC_SHA>>) }

qsort_frame(base, nmemb) == [base |-> base, nmemb |-> nmemb]

(* &base[o] of the call on top of the stack, as an index of the array.     *)
RecordAt(o) == Head(call.stack).base + (o \div sizeof_GNUTLS_CipherSuite) + 1

QsortInit ==
    /\ session \in QsortSessions
    /\ call = [fn |-> "none"]
    /\ ret = 0
    /\ ciphers = Unassigned
    /\ DefaultBuild
    /\ errno = "0"

(* _gnutls_qsort(session, base, nmemb, 2, _gnutls_compare_algo) is called  *)
(* on an array of suite ids.                                               *)
QsortCall ==
    \E base \in BoundedSeq(SortedIds, MaxSortLen) :
        /\ call.fn = "none"
        /\ call' = [fn |-> "_gnutls_qsort", input |-> base,
                    stack |-> << qsort_frame(0, Len(base)) >>, pc |-> "qsort",
                    i |-> 0, j |-> 0, full |-> 0, ptmp |-> <<0, 0>>]
        /\ ciphers' = [assigned |-> TRUE, list |-> base]
        /\ UNCHANGED <<session, ret, globals, errno>>

(* Entry of _gnutls_qsort: return if snmemb <= 1, else enter               *)
(* _gnutls_partition and initialise its variables.                         *)
QsortEnter ==
    /\ call.fn = "_gnutls_qsort"
    /\ call.pc = "qsort"
    /\ call' = IF Head(call.stack).nmemb <= 1
               THEN [call EXCEPT !.stack = Tail(@),
                                 !.pc = IF Tail(call.stack) = << >>
                                        THEN "done" ELSE "qsort"]
               ELSE [call EXCEPT
                       !.pc = "while",
                       !.i = 0,
                       !.j = unsigned_int((Head(call.stack).nmemb - 1)
                                          * sizeof_GNUTLS_CipherSuite),
                       !.full = unsigned_int((Head(call.stack).nmemb - 1)
                                             * sizeof_GNUTLS_CipherSuite),
                       !.ptmp = ciphers.list[RecordAt(0)]]
    /\ UNCHANGED <<session, ret, ciphers, globals, errno>>

(* The pivot's byte offset after the loop: j if j > pivot, i if i < pivot, *)
(* else pivot, with pivot = 0.                                             *)
partition_pivot(i, j) == IF j > 0 THEN j ELSE IF i < 0 THEN i ELSE 0

(* What _gnutls_qsort does with the value p of _gnutls_partition: the two  *)
(* recursive calls, on base and on &base[(p + 1) * size].                  *)
qsort_recursion(f, p) ==
    << qsort_frame(f.base, IF p < f.nmemb THEN p + 1 ELSE p),
       qsort_frame(f.base + p + 1, f.nmemb - p - 1) >>

(* while (i < j): into the loop body, or past the loop, where the pivot is *)
(* put in its place, _gnutls_partition returns and _gnutls_qsort makes its *)
(* recursive calls.                                                        *)
PartitionWhile ==
    /\ call.fn = "_gnutls_qsort"
    /\ call.pc = "while"
    /\ call' = IF call.i < call.j
               THEN [call EXCEPT !.pc = "inc_i"]
               ELSE [call EXCEPT
                       !.pc = "qsort",
                       !.stack = qsort_recursion(Head(call.stack),
                                     partition_pivot(call.i, call.j)
                                         \div sizeof_GNUTLS_CipherSuite)
                                 \o Tail(call.stack)]
    /\ ciphers' = IF call.i < call.j \/ partition_pivot(call.i, call.j) = 0
                  THEN ciphers
                  ELSE [ciphers EXCEPT
                          !.list[RecordAt(0)] =
                              ciphers.list[RecordAt(partition_pivot(call.i, call.j))],
                          !.list[RecordAt(partition_pivot(call.i, call.j))] =
                              ciphers.list[RecordAt(0)]]
    /\ UNCHANGED <<session, ret, globals, errno>>

(* while ((compar(session, &base[i], ptmp) <= 0) && (i < full)) i += size  *)
PartitionIncI ==
    /\ call.fn = "_gnutls_qsort"
    /\ call.pc = "inc_i"
    /\ call' = IF /\ _gnutls_compare_algo(session, ciphers.list[RecordAt(call.i)],
                                          call.ptmp) <= 0
                  /\ call.i < call.full
               THEN [call EXCEPT !.i = unsigned_int(@ + sizeof_GNUTLS_CipherSuite)]
               ELSE [call EXCEPT !.pc = "dec_j"]
    /\ UNCHANGED <<session, ret, ciphers, globals, errno>>

(* The second inner loop, as it would be without the test j > 0.           *)
PartitionDecJ_without_test ==
    /\ call.fn = "_gnutls_qsort"
    /\ call.pc = "dec_j"
    /\ call' = IF /\ RecordAt(call.j) \in DOMAIN ciphers.list
                  /\ _gnutls_compare_algo(session, ciphers.list[RecordAt(call.j)],
                                          call.ptmp) >= 0
               THEN [call EXCEPT !.j = unsigned_int(@ - sizeof_GNUTLS_CipherSuite)]
               ELSE [call EXCEPT !.pc = "swap"]
    /\ UNCHANGED <<session, ret, ciphers, globals, errno>>

(* while ((compar(session, &base[j], ptmp) >= 0) && (j > 0)) j -= size     *)
PartitionDecJ ==
    /\ call.fn = "_gnutls_qsort"
    /\ call.pc = "dec_j"
    /\ call' = IF /\ _gnutls_compare_algo(session, ciphers.list[RecordAt(call.j)],
                                          call.ptmp) >= 0
                  /\ call.j > 0
               THEN [call EXCEPT !.j = unsigned_int(@ - sizeof_GNUTLS_CipherSuite)]
               ELSE [call EXCEPT !.pc = "swap"]
    /\ UNCHANGED <<session, ret, ciphers, globals, errno>>

(* The exchange, as it would be if it only copied base[i] to base[j].      *)
PartitionSwap_copying ==
    /\ call.fn = "_gnutls_qsort"
    /\ call.pc = "swap"
    /\ call' = [call EXCEPT !.pc = "while"]
    /\ ciphers' = IF call.i < call.j
                  THEN [ciphers EXCEPT
                          !.list[RecordAt(call.j)] = ciphers.list[RecordAt(call.i)]]
                  ELSE ciphers
    /\ UNCHANGED <<session, ret, globals, errno>>

(* if (i < j) { SWAP(&base[j], &base[i]); }, then back to the loop test.   *)
PartitionSwap ==
    /\ call.fn = "_gnutls_qsort"
    /\ call.pc = "swap"
    /\ call' = [call EXCEPT !.pc = "while"]
    /\ ciphers' = IF call.i < call.j
                  THEN [ciphers EXCEPT
                          !.list[RecordAt(call.j)] = ciphers.list[RecordAt(call.i)],
                          !.list[RecordAt(call.i)] = ciphers.list[RecordAt(call.j)]]
                  ELSE ciphers
    /\ UNCHANGED <<session, ret, globals, errno>>

QsortNext ==
    \/ QsortCall
    \/ SupportedCiphersuitesSorted
    \/ QsortEnter
    \/ PartitionWhile
    \/ PartitionIncI
    \/ PartitionDecJ
    \/ PartitionSwap

QsortSpec == QsortInit /\ [][QsortNext]_vars

(* The processor keeps executing the sort.                                 *)
QsortLiveSpec == QsortSpec /\ WF_vars(QsortNext)

(***************************************************************************)
(* tests/send-client-cert.c.  The test program is modelled from its        *)
(* source; the library it drives is not part of the sources at hand and is *)
(* modelled by its contract: a server that requests a certificate          *)
(* advertises the subject names of its trusted CAs in CertificateRequest,  *)
(* and a client sends its certificate if that list is empty or holds the   *)
(* issuer of the certificate, and none otherwise.  In this machine         *)
(* `session` holds the two sessions of try() and `call` the statement      *)
(* reached.                                                                *)
(***************************************************************************)
OK == 0

FAIL == 1

INCORRECT_CA == 0

CORRECT_CA == 1

NO_CA == 2

(* The certificates of cert-common.h, by subject and issuer.               *)
x509_cert(subject, issuer) == [subject |-> subject, issuer |-> issuer]

ca3_cert == x509_cert("CA-3", "CA-3")

unknown_ca_cert == x509_cert("Unknown CA", "Unknown CA")

server_ca3_cert == x509_cert("localhost", "CA-3")

cli_ca3_cert == x509_cert("client", "CA-3")

GNUTLS_E_AGAIN == 0 - 28

(* gnutls_certificate_set_x509_trust_mem returns the number of             *)
(* certificates it added, or a negative error code and adds none.          *)
TrustMemResults == { 1, GNUTLS_E_MEMORY_ERROR, 0 - 34 }

set_x509_trust_mem(trust, ca, r) == IF r < 0 THEN trust ELSE trust \cup { ca }

(* The certificate_authorities of the server's CertificateRequest.         *)
certificate_authorities(trust) == { ca.subject : ca \in trust }

(* A mutation of the selection: the advertised names are not looked at.    *)
select_client_cert_whatever_is_advertised(authorities, certs) == certs

(* The client's choice of the certificate list to send: certs is the list  *)
(* it holds, NULL (the empty list) is no certificate.                      *)
select_client_cert(authorities, certs) ==
    IF certs = NULL THEN NULL
    ELSE IF authorities = {} THEN certs
    ELSE IF \E k \in DOMAIN certs : certs[k].issuer \in authorities THEN certs
    ELSE NULL

(* The calls of try() in doit(), in order.                                 *)
doit_calls ==
    << [expect |-> OK, ca_type |-> NO_CA],
       [expect |-> OK, ca_type |-> CORRECT_CA],
       [expect |-> FAIL, ca_type |-> INCORRECT_CA] >>

NoSessions == [server |-> NULL, client |-> NULL]

SendClientCertInit ==
    /\ session = NoSessions
    /\ call \in { [fn |-> "doit", next |-> 1, debug |-> d] : d \in { 0, 1 } }
    /\ ret = 0
    /\ ciphers = Unassigned
    /\ DefaultBuild
    /\ errno = "0"

(* try() up to HANDSHAKE: the server requests a certificate and trusts the *)
(* CA that ca_type names, if loading it worked (ret is overwritten with 0  *)
(* after the if chain); the client holds cli_ca3_cert.                     *)
Try ==
    \E r \in TrustMemResults :
        /\ call.fn = "doit"
        /\ call.next <= Len(doit_calls)
        /\ call.next = 1 => r = 1
        /\ call' = [fn |-> "try", next |-> call.next, debug |-> call.debug,
                    expect |-> doit_calls[call.next].expect,
                    ca_type |-> doit_calls[call.next].ca_type,
                    pc |-> "HANDSHAKE", turn |-> "client",
                    cret |-> GNUTLS_E_AGAIN, sret |-> GNUTLS_E_AGAIN,
                    flight |-> 0, authorities |-> {}]
        /\ session' =
             [server |-> << [cert_request |-> "GNUTLS_CERT_REQUEST",
                             log_level |-> IF call.debug # 0 THEN 6 ELSE 0,
                             certs |-> << server_ca3_cert >>,
                             trust |-> IF doit_calls[call.next].ca_type = CORRECT_CA
                                       THEN set_x509_trust_mem({}, ca3_cert, r)
                                       ELSE IF doit_calls[call.next].ca_type = INCORRECT_CA
                                       THEN set_x509_trust_mem({}, unknown_ca_cert, r)
                                       ELSE {}] >>,
              client |-> << [certs |-> << cli_ca3_cert >>,
                             trust |-> set_x509_trust_mem({}, ca3_cert, 1),
                             ours |-> NULL] >>]
        /\ ret' = 0
        /\ UNCHANGED <<ciphers, globals, errno>>

(* One gnutls_handshake(client) of the HANDSHAKE loop.  Flights: 1 the     *)
(* ClientHello, 2 the server's flight with CertificateRequest, 3 the       *)
(* client's flight with its Certificate, 4 the server's Finished.  The     *)
(* call returns GNUTLS_E_AGAIN without progress when the peer's flight has *)
(* not arrived or when it is interrupted.                                  *)
HandshakeClient ==
    \E interrupted \in BOOLEAN :
        /\ call.fn = "try"
        /\ call.pc = "HANDSHAKE"
        /\ call.turn = "client"
        /\ call' = IF interrupted \/ call.flight \in { 1, 3 }
                   THEN [call EXCEPT
                           !.cret = GNUTLS_E_AGAIN,
                           !.turn = IF call.sret = GNUTLS_E_AGAIN
                                    THEN "server" ELSE "client"]
                   ELSE [call EXCEPT
                           !.flight = IF @ = 4 THEN 4 ELSE @ + 1,
                           !.cret = IF call.flight = 4 THEN 0 ELSE GNUTLS_E_AGAIN,
                           !.turn = IF call.sret = GNUTLS_E_AGAIN
                                    THEN "server" ELSE "client",
                           !.pc = IF call.flight = 4 THEN "check" ELSE "HANDSHAKE"]
        /\ session' = IF ~interrupted /\ call.flight = 2
                      THEN [session EXCEPT
                              !.client[1].ours =
                                  select_client_cert(call.authorities,
                                                     session.client[1].certs)]
                      ELSE session
        /\ UNCHANGED <<ret, ciphers, globals, errno>>

(* One gnutls_handshake(server) of the HANDSHAKE loop.                     *)
HandshakeServer ==
    \E interrupted \in BOOLEAN :
        /\ call.fn = "try"
        /\ call.pc = "HANDSHAKE"
        /\ call.turn = "server"
        /\ call' = IF interrupted \/ call.flight \in { 0, 2 }
                   THEN [call EXCEPT !.sret = GNUTLS_E_AGAIN, !.turn = "client"]
                   ELSE [call EXCEPT
                           !.flight = @ + 1,
                           !.authorities =
                               IF call.flight = 1
                               THEN certificate_authorities(session.server[1].trust)
                               ELSE @,
                           !.sret = IF call.flight = 3 THEN 0 ELSE GNUTLS_E_AGAIN,
                           !.turn = "client"]
        /\ UNCHANGED <<session, ret, ciphers, globals, errno>>

(* The test of gnutls_certificate_get_ours(client) against expect: fail()  *)
(* and exit(1), or on to the clean-up.                                     *)
TryCheck ==
    /\ call.fn = "try"
    /\ call.pc = "check"
    /\ call' = IF (call.expect = OK) = (session.client[1].ours = NULL)
               THEN [fn |-> "exit", status |-> 1, ca_type |-> call.ca_type]
               ELSE [call EXCEPT !.pc = "deinit"]
    /\ UNCHANGED <<session, ret, ciphers, globals, errno>>

(* gnutls_deinit and the frees at the end of try(); back in doit(), which  *)
(* ends with gnutls_global_deinit() after the last call.                   *)
TryDeinit ==
    /\ call.fn = "try"
    /\ call.pc = "deinit"
    /\ call' = [fn |-> "doit", next |-> call.next + 1, debug |-> call.debug]
    /\ session' = NoSessions
    /\ UNCHANGED <<ret, ciphers, globals, errno>>

SendClientCertNext ==
    \/ Try
    \/ HandshakeClient
    \/ HandshakeServer
    \/ TryCheck
    \/ TryDeinit

SendClientCertSpec == SendClientCertInit /\ [][SendClientCertNext]_vars

(***************************************************************************)
(* C1.  Each priority function returns -1 exactly when the algorithm does  *)
(* not occur among the first `algorithms` entries of the list of its       *)
(* class, and otherwise the 0-based index of its first occurrence.         *)
(***************************************************************************)
IsRank(list, a, r) ==
    LET occ == Occurrences(list, a)
    IN  /\ r = -1 <=> occ = {}
        /\ occ # {} => r \in occ /\ \A i \in occ : r <= i

C1_PriorityIsRank ==
    /\ call.fn = "_gnutls_kx_priority"
         => IsRank(session.kx_algorithm_priority, call.algorithm, ret)
    /\ call.fn = "_gnutls_cipher_priority"
         => IsRank(session.cipher_algorithm_priority, call.algorithm, ret)
    /\ call.fn = "_gnutls_mac_priority"
         => IsRank(session.mac_algorithm_priority, call.algorithm, ret)

(* A kx list that names the queried algorithm twice: the first index wins. *)
C1_Witness ==
    /\ call.fn = "_gnutls_kx_priority"
    /\ Cardinality(Occurrences(session.kx_algorithm_priority, call.algorithm)) >= 2
    /\ ret >= 0

(***************************************************************************)
(* C2.  Every suite returned by either enumeration is a table entry whose  *)
(* kx, cipher and mac have a priority >= 0 in the session and whose        *)
(* minimum version is not above the session's version.                     *)
(***************************************************************************)
C2_ReturnedSuitesAcceptable ==
    (Unsorted \/ Sorted) /\ ciphers.assigned =>
        \A k \in 1..Len(ciphers.list) :
            /\ InTable(ciphers.list[k])
            /\ KxRank(EntryOf(ciphers.list[k])) >= 0
            /\ CipherRank(EntryOf(ciphers.list[k])) >= 0
            /\ MacRank(EntryOf(ciphers.list[k])) >= 0
            /\ EntryOf(ciphers.list[k]).version <= session.version

(* An SSL 3.0 session that lists TWOFISH, whose suites all need TLS 1.0,   *)
(* and a disabled mac (MD5) used by RSA suites: both filters drop entries. *)
C2_Witness ==
    /\ Sorted
    /\ ciphers.assigned
    /\ session.version = GNUTLS_SSL3
    /\ session.enable_private = 1
    /\ Rank(session.cipher_algorithm_priority, GNUTLS_CIPHER_TWOFISH_128_CBC) >= 0
    /\ Rank(session.kx_algorithm_priority, GNUTLS_KX_RSA) >= 0
    /\ Rank(session.mac_algorithm_priority, GNUTLS_MAC_MD5) < 0
    /\ Len(ciphers.list) >= 2

(***************************************************************************)
(* C3.  With enable_private = 0 no returned suite has first byte 0xFF.     *)
(***************************************************************************)
C3_NoPrivateSuites ==
    (Unsorted \/ Sorted) /\ ciphers.assigned /\ session.enable_private = 0 =>
        \A k \in 1..Len(ciphers.list) : ciphers.list[k][1] # 255

(* A private suite (RSA_TWOFISH_128_CBC_SHA) passes every other filter.    *)
C3_Witness ==
    /\ Unsorted
    /\ ciphers.assigned
    /\ session.enable_private = 0
    /\ \E p \in 1..CIPHER_SUITES_COUNT :
          /\ cs_algorithms[p].id[1] = 255
          /\ cs_algorithms[p].version <= session.version
          /\ KxRank(cs_algorithms[p]) >= 0
          /\ MacRank(cs_algorithms[p]) >= 0
          /\ CipherRank(cs_algorithms[p]) >= 0

(***************************************************************************)
(* C4.  _gnutls_supported_ciphersuites is complete: when it returns a      *)
(* count, the list is exactly the table entries passing the four filters,  *)
(* once each, in table order, and the count is their number; and it        *)
(* returns a count whenever an entry passes and the buffers are allocated. *)
(***************************************************************************)
C4_FilterComplete ==
    Unsorted =>
        /\ ret > 0 => /\ ciphers.assigned
                      /\ ciphers.list = OfferableIds
                      /\ ret = Len(Offerable)
        /\ call.alloc = "ok" /\ Len(Offerable) > 0 => ret > 0

(* Some entries pass and some do not, among them the last of the table.    *)
C4_Witness ==
    /\ Unsorted
    /\ ret >= 2
    /\ ret < CIPHER_SUITES_COUNT
    /\ ciphers.list[ret] = cs_algorithms[CIPHER_SUITES_COUNT].id

(***************************************************************************)
(* C5.  The sorted enumeration is in ascending order of                    *)
(* score = (rank(kx)+1)*64 + (rank(cipher)+1)*8 + rank(mac).               *)
(***************************************************************************)
C5_SortedByScore ==
    Sorted /\ ret > 0 =>
        \A a, b \in 1..Len(ciphers.list) :
            a < b => Score(EntryOf(ciphers.list[a])) <= Score(EntryOf(ciphers.list[b]))

(* The filter's output (table order) was not in score order.               *)
C5_Witness ==
    /\ Sorted
    /\ ret >= 3
    /\ \E a, b \in 1..Len(Offerable) :
          a < b /\ Score(Offerable[a]) > Score(Offerable[b])

(***************************************************************************)
(* C6.  The sorted enumeration is stable: two returned suites of equal     *)
(* score keep the relative order they have in cs_algorithms.               *)
(***************************************************************************)
C6_StableOrder ==
    Sorted /\ ret > 0 =>
        \A a, b \in 1..Len(ciphers.list) :
            /\ a < b
            /\ Score(EntryOf(ciphers.list[a])) = Score(EntryOf(ciphers.list[b]))
            => TablePosition(ciphers.list[a]) < TablePosition(ciphers.list[b])

(***************************************************************************)
(* C7.  The sorted enumeration is lexicographic in (kx rank, cipher rank): *)
(* a returned suite of better kx rank precedes one of worse kx rank, and   *)
(* among equal kx ranks a better cipher rank comes first, whatever the     *)
(* length of the priority lists.                                           *)
(***************************************************************************)
Precedes(A, B) ==
    \/ KxRank(A) < KxRank(B)
    \/ KxRank(A) = KxRank(B) /\ CipherRank(A) < CipherRank(B)

C7_LexicographicOrder ==
    Sorted /\ ret > 0 =>
        \A a, b \in 1..Len(ciphers.list) :
            Precedes(EntryOf(ciphers.list[a]), EntryOf(ciphers.list[b])) => a < b

(***************************************************************************)
(* C8.  With kx [DHE_RSA, RSA], ciphers [AES_256, AES_128, 3DES], mac      *)
(* [SHA], TLS 1.0 and no private suites, the sorted enumeration is exactly *)
(* the three DHE_RSA suites followed by the three RSA suites, each group   *)
(* in the order AES_256, AES_128, 3DES; it holds no ANON_DH, SRP or        *)
(* 0xFF-prefixed suite.                                                    *)
(***************************************************************************)
SuiteNamed(name) ==
    (CHOOSE e \in { cs_algorithms[p] : p \in 1..CIPHER_SUITES_COUNT } :
        e.name = <<"GNUTLS_", name>>).id

ScenarioResult ==
    << SuiteNamed("DHE_RSA_AES_256_CBC_SHA"),
       SuiteNamed("DHE_RSA_AES_128_CBC_SHA"),
       SuiteNamed("DHE_RSA_3DES_EDE_CBC_SHA"),
       SuiteNamed("RSA_AES_256_CBC_SHA"),
       SuiteNamed("RSA_AES_128_CBC_SHA"),
       SuiteNamed("RSA_3DES_EDE_CBC_SHA") >>

C8_ScenarioOrder ==
    session = ScenarioSession /\ Sorted /\ call.alloc = "ok" =>
        /\ ret = 6
        /\ ciphers.assigned
        /\ ciphers.list = ScenarioResult
        /\ \A a, b \in 1..Len(ciphers.list) :
              /\ EntryOf(ciphers.list[a]).kx_algorithm = GNUTLS_KX_DHE_RSA
              /\ EntryOf(ciphers.list[b]).kx_algorithm = GNUTLS_KX_RSA
              => a < b
        /\ \A k \in 1..Len(ciphers.list) :
              /\ EntryOf(ciphers.list[k]).kx_algorithm
                    \notin { GNUTLS_KX_ANON_DH, GNUTLS_KX_SRP,
                             GNUTLS_KX_SRP_RSA, GNUTLS_KX_SRP_DSS }
              /\ ciphers.list[k][1] # 255

C8_Witness ==
    /\ session = ScenarioSession
    /\ Sorted
    /\ ret = 6
    /\ ciphers.list[1] = <<0, 57>>

(***************************************************************************)
(* C9.  When no table entry passes the session's filters, the enumeration  *)
(* fails: it returns an error, never 0 and never a list, and leaves the    *)
(* caller's pointer unassigned; the sorted enumeration returns the same    *)
(* error.  A positive count implies that an entry passes.                  *)
(***************************************************************************)
(* As first stated: the error is always GNUTLS_E_NO_CIPHER_SUITES.         *)
C9_AlwaysNoCipherSuites ==
    (Unsorted \/ Sorted) =>
        /\ Len(Offerable) = 0 =>
              ret = GNUTLS_E_NO_CIPHER_SUITES /\ ~ciphers.assigned
        /\ ret > 0 => Len(Offerable) > 0

(* As the code has it: GNUTLS_E_NO_CIPHER_SUITES when both buffers were    *)
(* allocated, GNUTLS_E_MEMORY_ERROR when an allocation failed first.       *)
C9_EmptyIsAnError ==
    (Unsorted \/ Sorted) =>
        /\ Len(Offerable) = 0 =>
              /\ ret = IF call.alloc = "ok" THEN GNUTLS_E_NO_CIPHER_SUITES
                                            ELSE GNUTLS_E_MEMORY_ERROR
              /\ ~ciphers.assigned
              /\ ciphers.list = <<>>
        /\ ret # 0
        /\ ret > 0 => Len(Offerable) > 0 /\ ret = Len(Offerable)

(* The empty kx list, through the sorted entry point.                      *)
C9_Witness ==
    /\ Sorted
    /\ session.kx_algorithm_priority.algorithms = 0
    /\ session.cipher_algorithm_priority.algorithms > 0
    /\ session.mac_algorithm_priority.algorithms > 0
    /\ call.alloc = "ok"
    /\ ret = GNUTLS_E_NO_CIPHER_SUITES
    /\ ~ciphers.assigned

(***************************************************************************)
(* C10.  Round trip over cs_algorithms: the three getters applied to an    *)
(* entry's id return the entry's kx, cipher and mac; the name looked up    *)
(* for these three algorithms is the entry's own name, the same name that  *)
(* _gnutls_cipher_suite_get_name returns for the id; and no two entries    *)
(* have the same (kx, cipher, mac).                                        *)
(***************************************************************************)
Triple(e) == <<e.kx_algorithm, e.block_algorithm, e.mac_algorithm>>

C10_RoundTrip ==
    /\ \A p, q \in 1..CIPHER_SUITES_COUNT :
          Triple(cs_algorithms[p]) = Triple(cs_algorithms[q]) => p = q
    /\ call.fn # "none" /\ call.suite \in TableIds =>
          LET e == EntryOf(call.suite)
          IN  /\ call.fn = "_gnutls_cipher_suite_get_kx_algo"
                    => ret = e.kx_algorithm
              /\ call.fn = "_gnutls_cipher_suite_get_cipher_algo"
                    => ret = e.block_algorithm
              /\ call.fn = "_gnutls_cipher_suite_get_mac_algo"
                    => /\ ret = e.mac_algorithm
                       /\ <<call.kx_algorithm, call.cipher_algorithm,
                            call.mac_algorithm>> = Triple(e)
              /\ call.fn = "gnutls_cipher_suite_get_name"
                    => ret = Tail(e.name) /\ ret # NULL
              /\ call.fn = "_gnutls_cipher_suite_get_name"
                    => ret = call.name /\ ret = Tail(e.name)

(* The round trip is complete for RSA_ARCFOUR_MD5, which shares its kx and *)
(* its cipher with RSA_ARCFOUR_SHA.                                        *)
C10_Witness ==
    /\ call.fn = "_gnutls_cipher_suite_get_name"
    /\ call.suite = SuiteNamed("RSA_ARCFOUR_MD5")
    /\ call.kx_algorithm = GNUTLS_KX_RSA
    /\ call.cipher_algorithm = GNUTLS_CIPHER_ARCFOUR_128
    /\ call.mac_algorithm = GNUTLS_MAC_MD5
    /\ call.name = <<"RSA_ARCFOUR_MD5">>
    /\ ret = call.name

(***************************************************************************)
(* C11.  No two entries of cs_algorithms have the same id, so the lookup   *)
(* by id, which stops at the first match, returns the fields of the only   *)
(* entry that has the id.                                                  *)
(***************************************************************************)
LookedUpField(e) ==
    CASE call.fn = "_gnutls_cipher_suite_get_kx_algo" -> e.kx_algorithm
      [] call.fn = "_gnutls_cipher_suite_get_cipher_algo" -> e.block_algorithm
      [] call.fn = "_gnutls_cipher_suite_get_mac_algo" -> e.mac_algorithm
      [] call.fn = "_gnutls_cipher_suite_get_version" -> e.version
      [] call.fn = "_gnutls_cipher_suite_get_name" -> Tail(e.name)

SuiteLookups ==
    { "_gnutls_cipher_suite_get_kx_algo", "_gnutls_cipher_suite_get_cipher_algo",
      "_gnutls_cipher_suite_get_mac_algo", "_gnutls_cipher_suite_get_version",
      "_gnutls_cipher_suite_get_name" }

C11_UniqueIds ==
    /\ \A p, q \in 1..CIPHER_SUITES_COUNT :
          cs_algorithms[p].id = cs_algorithms[q].id => p = q
    /\ call.fn \in SuiteLookups =>
          \A p \in 1..CIPHER_SUITES_COUNT :
              cs_algorithms[p].id = call.suite => ret = LookedUpField(cs_algorithms[p])

(* The mac of RSA_ARCFOUR_MD5, whose id is next to RSA_ARCFOUR_SHA's.      *)
C11_Witness ==
    /\ call.fn = "_gnutls_cipher_suite_get_mac_algo"
    /\ call.suite = GNUTLS_RSA_ARCFOUR_MD5
    /\ ret = GNUTLS_MAC_MD5

(***************************************************************************)
(* C12.  When _gnutls_supported_compression_methods returns a count, the   *)
(* bytes it wrote are the wire numbers of the entries of the session's     *)
(* compression priority list, in the order of the list, keeping exactly    *)
(* the entries whose method has a wire number in the compression table     *)
(* that is below 0xEF when enable_private = 0; the count is the number of  *)
(* entries kept.  It returns a count whenever the buffer was allocated     *)
(* and an entry is kept.                                                   *)
(***************************************************************************)
HasWireNumber(a) ==
    \E p \in 1..Len(_gnutls_compression_algorithms) :
        _gnutls_compression_algorithms[p].id = a

WireNumber(a) ==
    LET p == CHOOSE q \in 1..Len(_gnutls_compression_algorithms) :
                 _gnutls_compression_algorithms[q].id = a
    IN  _gnutls_compression_algorithms[p].num

MethodKept(a) ==
    /\ HasWireNumber(a)
    /\ session.enable_private = 0 => WireNumber(a) < 239

KeptPositions ==
    { i \in 1..session.compression_method_priority.algorithms :
          MethodKept(session.compression_method_priority.priority[i]) }

(* The k-th kept position, counting from 1.                                *)
KeptPosition(k) ==
    CHOOSE i \in KeptPositions : Cardinality({ j \in KeptPositions : j <= i }) = k

KeptWireNumbers ==
    [ k \in 1..Cardinality(KeptPositions) |->
          WireNumber(session.compression_method_priority.priority[KeptPosition(k)]) ]

C12_KeptWireNumbers ==
    call.fn = "_gnutls_supported_compression_methods" =>
        /\ ret > 0 =>
              /\ ciphers.list = KeptWireNumbers
              /\ ret = Cardinality(KeptPositions)
        /\ (call.alloc = "ok" /\ KeptPositions # {}) => ret > 0

(* zlib is kept and the private method LZO, though in the table, is not.   *)
C12_Witness ==
    /\ call.fn = "_gnutls_supported_compression_methods"
    /\ session.enable_private = 0
    /\ session.compression_method_priority.priority
           = << GNUTLS_COMP_LZO, GNUTLS_COMP_ZLIB >>
    /\ HasWireNumber(GNUTLS_COMP_LZO)
    /\ ret = 1
    /\ ciphers.list = << 1 >>

(***************************************************************************)
(* C13, as stated.  When no entry of the compression priority list is      *)
(* kept, _gnutls_supported_compression_methods returns                     *)
(* GNUTLS_E_NO_COMPRESSION_ALGORITHMS and leaves *comp NULL with the       *)
(* buffer freed.                                                           *)
(***************************************************************************)
C13_AlwaysNoCompressionAlgorithms ==
    (call.fn = "_gnutls_supported_compression_methods" /\ KeptPositions = {}) =>
        /\ ret = GNUTLS_E_NO_COMPRESSION_ALGORITHMS
        /\ ciphers.list = NULL
        /\ call.buffer = "freed"

(***************************************************************************)
(* C13, amended.  When no entry is kept the function returns an error,     *)
(* never a count of 0, and *comp is NULL: GNUTLS_E_NO_COMPRESSION_         *)
(* ALGORITHMS with the buffer freed when gnutls_malloc returned a buffer,  *)
(* GNUTLS_E_MEMORY_ERROR with nothing to free when it returned NULL.       *)
(***************************************************************************)
C13_EmptyIsAnError ==
    (call.fn = "_gnutls_supported_compression_methods" /\ KeptPositions = {}) =>
        /\ ret < 0
        /\ ciphers = [assigned |-> TRUE, list |-> NULL]
        /\ call.alloc = "ok" =>
              ret = GNUTLS_E_NO_COMPRESSION_ALGORITHMS /\ call.buffer = "freed"
        /\ call.alloc # "ok" =>
              ret = GNUTLS_E_MEMORY_ERROR /\ call.buffer = "none"

(* A list of two methods, both dropped: one unknown, one private.          *)
C13_Witness ==
    /\ call.fn = "_gnutls_supported_compression_methods"
    /\ session.compression_method_priority.priority = << 4, GNUTLS_COMP_LZO >>
    /\ HasWireNumber(GNUTLS_COMP_LZO)
    /\ session.enable_private = 0
    /\ ret = GNUTLS_E_NO_COMPRESSION_ALGORITHMS
    /\ ciphers.list = NULL
    /\ call.buffer = "freed"

(***************************************************************************)
(* C14.  _gnutls_compression_get_id(0x01) is GNUTLS_COMP_ZLIB when the     *)
(* zlib entry is in the compression table and -1 when it is not; in every  *)
(* build _gnutls_compression_get_id(_gnutls_compression_get_num(a)) = a    *)
(* for each algorithm a of the table, and a wire number that no entry has  *)
(* maps to -1.                                                             *)
(***************************************************************************)
ZlibCompiledIn ==
    \E p \in 1..Len(_gnutls_compression_algorithms) :
        _gnutls_compression_algorithms[p].id = GNUTLS_COMP_ZLIB

NumInTable(num) ==
    \E p \in 1..Len(_gnutls_compression_algorithms) :
        _gnutls_compression_algorithms[p].num = num

C14_IdOfWireNumber ==
    call.fn = "_gnutls_compression_get_id" =>
        /\ call.algorithm = 1 =>
              ret = (IF ZlibCompiledIn THEN GNUTLS_COMP_ZLIB ELSE -1)
        /\ ("of" \in DOMAIN call /\ HasWireNumber(call.of)) => ret = call.of
        /\ ~NumInTable(call.algorithm) => ret = -1

(* A build without zlib is asked for wire number 1.                        *)
C14_Witness ==
    /\ call = [fn |-> "_gnutls_compression_get_id", algorithm |-> 1]
    /\ ~ZlibCompiledIn
    /\ ret = -1

(* The private method LZO is mapped to its wire number and back.           *)
C14_WitnessRoundTrip ==
    /\ call = [fn |-> "_gnutls_compression_get_id", algorithm |-> 242,
               of |-> GNUTLS_COMP_LZO]
    /\ ret = GNUTLS_COMP_LZO

(***************************************************************************)
(* C15.  The four getters of the suite decomposition tell an id that is    *)
(* not in cs_algorithms from one that is: the value returned for an        *)
(* absent id, 0, is returned for no id of the table, whose cipher, kx,     *)
(* mac and version are all enum values other than 0.                       *)
(***************************************************************************)
SuiteGetters ==
    { "_gnutls_cipher_suite_get_kx_algo", "_gnutls_cipher_suite_get_cipher_algo",
      "_gnutls_cipher_suite_get_mac_algo", "_gnutls_cipher_suite_get_version" }

EntriesWith(table, key) ==
    { p \in 1..Len(table) : table[p][key] = call.algorithm }

(* The lookup `fn` of `field` in `table`, whose ids are in `key`.          *)
Total(fn, table, key, field, sentinel) ==
    call.fn = fn =>
        /\ EntriesWith(table, key) = {} => ret = sentinel
        /\ \A p \in EntriesWith(table, key) : ret = table[p][field]

(* The same for a name that is returned without its prefix.                *)
TotalUnprefixed(fn, table) ==
    call.fn = fn =>
        /\ EntriesWith(table, "id") = {} => ret = NULL
        /\ \A p \in EntriesWith(table, "id") : ret = << table[p].name[2] >>

C16_TotalLookups ==
    /\ Total("gnutls_mac_get_name", hash_algorithms, "id", "name", NULL)
    /\ Total("gnutls_cipher_get_name", algorithms, "id", "name", NULL)
    /\ Total("gnutls_kx_get_name", _gnutls_kx_algorithms, "algorithm", "name", NULL)
    /\ Total("gnutls_protocol_get_name", sup_versions, "id", "name", NULL)
    /\ TotalUnprefixed("gnutls_compression_get_name", _gnutls_compression_algorithms)
    /\ TotalUnprefixed("_gnutls_cipher_suite_get_name", cs_algorithms)
    /\ Total("_gnutls_mac_get_digest_size", hash_algorithms, "id", "digestsize", 0)
    /\ Total("_gnutls_cipher_get_block_size", algorithms, "id", "blocksize", 0)
    /\ Total("_gnutls_cipher_get_iv_size", algorithms, "id", "iv", 0)
    /\ Total("_gnutls_cipher_get_export_flag", algorithms, "id", "export_flag", 0)
    /\ Total("gnutls_cipher_get_key_size", algorithms, "id", "keysize", 0)
    /\ Total("_gnutls_compression_get_num", _gnutls_compression_algorithms, "id", "num", -1)
    /\ Total("_gnutls_compression_get_wbits", _gnutls_compression_algorithms, "id",
             "window_bits", -1)
    /\ Total("_gnutls_compression_get_mem_level", _gnutls_compression_algorithms, "id",
             "mem_level", -1)
    /\ Total("_gnutls_compression_get_comp_level", _gnutls_compression_algorithms, "id",
             "comp_level", -1)
    /\ Total("_gnutls_version_get_major", sup_versions, "id", "major", -1)
    /\ Total("_gnutls_version_get_minor", sup_versions, "id", "minor", -1)

(* The window bits of zlib in a build that has no zlib entry.              *)
C16_Witness ==
    /\ call = [fn |-> "_gnutls_compression_get_wbits", algorithm |-> GNUTLS_COMP_ZLIB]
    /\ ~ZlibCompiledIn
    /\ ret = -1

(* The key size of a cipher id that the cipher table does not hold.        *)
C16_WitnessKeySize ==
    /\ call = [fn |-> "gnutls_cipher_get_key_size", algorithm |-> 92]
    /\ ret = 0

(***************************************************************************)
(* C17, as stated.  For the stream ciphers of the cipher table (ARCFOUR    *)
(* 128, ARCFOUR 40, NULL) _gnutls_cipher_get_block_size returns 0, the     *)
(* value it returns for an id that is not in the table.                    *)
(***************************************************************************)
StreamCiphers ==
    { GNUTLS_CIPHER_ARCFOUR_128, GNUTLS_CIPHER_ARCFOUR_40, GNUTLS_CIPHER_NULL }

C17_StreamBlockSizeIsZero ==
    (call.fn = "_gnutls_cipher_get_block_size" /\ call.algorithm \in StreamCiphers)
        => ret = 0

(***************************************************************************)
(* C17, amended.  For the stream ciphers of the cipher table               *)
(* _gnutls_cipher_get_block_size returns 1, and it returns 0 only for an   *)
(* id that is not in the table: the block size tells the two apart.        *)
(***************************************************************************)
C17_StreamBlockSizeIsOne ==
    call.fn = "_gnutls_cipher_get_block_size" =>
        /\ StreamCiphers = { algorithms[p].id : p \in { q \in 1..Len(algorithms) :
                                 algorithms[q].block = CIPHER_STREAM } }
        /\ call.algorithm \in StreamCiphers => ret = 1
        /\ ret = 0 <=> call.algorithm \notin CipherAlgorithms

C17_Witness ==
    /\ call = [fn |-> "_gnutls_cipher_get_block_size",
               algorithm |-> GNUTLS_CIPHER_ARCFOUR_128]
    /\ ret = 1

(***************************************************************************)
(* C18, as stated.  _gnutls_version_is_supported(session, v) returns 1     *)
(* exactly when v has an entry of sup_versions with supported > 0 and v    *)
(* occurs in the session's protocol priority list; and for a version not   *)
(* in the table, or when the protocol priority array is NULL or lacks v,   *)
(* _gnutls_version_priority yields -1.                                     *)
(***************************************************************************)
VersionKnown(v) ==
    \E p \in 1..Len(sup_versions) :
        sup_versions[p].id = v /\ sup_versions[p].supported > 0

VersionEnabled(v) ==
    \E i \in 1..session.protocol_priority.algorithms :
        session.protocol_priority.priority[i] = v

SupportedIffKnownAndEnabled ==
    call.fn = "_gnutls_version_is_supported" =>
        /\ ret \in { 0, 1 }
        /\ ret = 1 <=> (VersionKnown(call.version) /\ VersionEnabled(call.version))

C18_UnknownVersionHasNoPriority ==
    /\ SupportedIffKnownAndEnabled
    /\ call.fn = "_gnutls_version_priority" =>
          ((~VersionKnown(call.version) \/ ~VersionEnabled(call.version)) => ret = -1)

(***************************************************************************)
(* C18, amended.  _gnutls_version_is_supported(session, v) returns 1       *)
(* exactly when v has an entry of sup_versions with supported > 0 and v    *)
(* occurs in the session's protocol priority list, and 0 otherwise;        *)
(* _gnutls_version_priority yields -1 exactly when the protocol priority   *)
(* array is NULL or lacks v, and the index of v in the list otherwise,     *)
(* whether or not v is in the table.                                       *)
(***************************************************************************)
C18_KnownAndEnabled ==
    /\ SupportedIffKnownAndEnabled
    /\ call.fn = "_gnutls_version_priority" =>
          /\ ~VersionEnabled(call.version) => ret = -1
          /\ VersionEnabled(call.version) =>
                /\ ret \in 0..(session.protocol_priority.algorithms - 1)
                /\ session.protocol_priority.priority[ret + 1] = call.version

(* A version that sup_versions does not hold, first in the priority list,  *)
(* is not supported.                                                       *)
C18_Witness ==
    /\ call = [fn |-> "_gnutls_version_is_supported", version |-> 3]
    /\ session.protocol_priority = Priority(<< 3, GNUTLS_TLS1 >>, 2)
    /\ ret = 0

(* The same version has a priority.                                        *)
C18_WitnessPriority ==
    /\ call = [fn |-> "_gnutls_version_priority", version |-> 3]
    /\ session.protocol_priority = Priority(<< 3, GNUTLS_TLS1 >>, 2)
    /\ ret = 0

(***************************************************************************)
(* C19.  Every key exchange of a suite of cs_algorithms has exactly one    *)
(* entry in cred_mappings, and _gnutls_map_kx_get_cred(kx, server) is the  *)
(* server_type of the entry of kx when server is not 0, its client_type    *)
(* when server is 0, and -1 when kx has no entry.                          *)
(***************************************************************************)
MappingsOf(kx) ==
    { q \in 1..Len(cred_mappings) : kx # 0 /\ cred_mappings[q].algorithm = kx }

C19_OneMappingPerKx ==
    /\ \A p \in 1..CIPHER_SUITES_COUNT :
          Cardinality(MappingsOf(cs_algorithms[p].kx_algorithm)) = 1
    /\ call.fn = "_gnutls_map_kx_get_cred" =>
          /\ MappingsOf(call.algorithm) = {} => ret = -1
          /\ \A q \in MappingsOf(call.algorithm) :
                ret = (IF call.server # 0 THEN cred_mappings[q].server_type
                                          ELSE cred_mappings[q].client_type)

(* SRP_RSA: the client needs SRP credentials, the server a certificate.    *)
C19_Witness ==
    /\ call = [fn |-> "_gnutls_map_kx_get_cred", algorithm |-> GNUTLS_KX_SRP_RSA,
               server |-> 0]
    /\ ret = GNUTLS_CRD_SRP
    /\ _gnutls_map_kx_get_cred(GNUTLS_KX_SRP_RSA, 1) = GNUTLS_CRD_CERTIFICATE

(***************************************************************************)
(* C20.  _gnutls_map_kx_get_kx does not depend on the role: for every      *)
(* credential type the call with server = 0 and the call with server = 1   *)
(* return the same value, the kx algorithm of the first entry of           *)
(* cred_mappings whose server_type is the type, or -1 when there is none.  *)
(***************************************************************************)
ServerMappingsOf(type) ==
    { q \in 1..Len(cred_mappings) :
          cred_mappings[q].algorithm # 0 /\ cred_mappings[q].server_type = type }

C20_RoleIndependent ==
    call.fn = "_gnutls_map_kx_get_kx" =>
        /\ "client" \in DOMAIN call => ret = call.client
        /\ ServerMappingsOf(call.type) = {} => ret = -1
        /\ \A q \in ServerMappingsOf(call.type) :
              (\A r \in ServerMappingsOf(call.type) : q <= r)
                  => ret = cred_mappings[q].algorithm

(* Certificate credentials, asked as a client and again as a server: RSA,  *)
(* the first of the seven entries whose server needs a certificate.        *)
C20_Witness ==
    /\ call = [fn |-> "_gnutls_map_kx_get_kx", type |-> GNUTLS_CRD_CERTIFICATE,
               server |-> 1, client |-> GNUTLS_KX_RSA]
    /\ ret = GNUTLS_KX_RSA

C21_MethodsInputsUnchanged ==
    [][ session' = session /\ globals' = globals ]_vars

InWritev == call.fn = "tfo_writev"

(* The call issued sendmsg with MSG_FASTOPEN (after setsockopt).           *)
TriedFastopen ==
    /\ InWritev
    /\ Len(call.syscalls) >= 2
    /\ call.syscalls[2].name = "sendmsg"
    /\ "MSG_FASTOPEN" \in call.syscalls[2].flags

(* The call issued connect(), always as its last system call.              *)
CalledConnect ==
    /\ InWritev
    /\ Len(call.syscalls) >= 1
    /\ call.syscalls[Len(call.syscalls)].name = "connect"

FellBack == TriedFastopen /\ call.syscalls[2].result = Fails("EOPNOTSUPP")

(***************************************************************************)
(* C22.  When the first write after gnutls_transport_set_fastopen with a   *)
(* non-zero length has its sendmsg with MSG_FASTOPEN fail with EOPNOTSUPP, *)
(* the same tfo_writev call goes on to connect() on the stored address:    *)
(* the call returns what connect() returned, a failure it reports carries  *)
(* connect()'s errno and not EOPNOTSUPP, and connect_only is 1 on return   *)
(* unless connect() established the connection at once.                    *)
(***************************************************************************)
C22_FallbackInSameCall ==
    (InWritev /\ call.after_set /\ FellBack) =>
        /\ Len(call.syscalls) = 3
        /\ CalledConnect
        /\ call.syscalls[3].msg_name = call.before.connect_addr
        /\ call.syscalls[3].msg_namelen = call.before.connect_addrlen
        /\ call.syscalls[3].msg_namelen # 0
        /\ ret = call.syscalls[3].result.ret
        /\ ret < 0 => errno # "EOPNOTSUPP"
        /\ session.tfo.connect_only = IF ret = 0 THEN 0 ELSE 1

C22_Witness ==
    /\ InWritev
    /\ call.after_set
    /\ FellBack
    /\ CalledConnect
    /\ ret = 0
    /\ session.tfo.connect_only = 0

C22_WitnessInProgress ==
    /\ InWritev
    /\ call.after_set
    /\ FellBack
    /\ ret < 0
    /\ errno = "EAGAIN"
    /\ session.tfo.connect_only = 1

(* The connection step of the call succeeded: sendmsg with MSG_FASTOPEN    *)
(* returned a byte count, or connect() returned 0.                         *)
ConnectionStepSucceeded ==
    \/ TriedFastopen /\ call.syscalls[2].result.ret >= 0
    \/ CalledConnect /\ call.syscalls[Len(call.syscalls)].result.ret = 0

(***************************************************************************)
(* C26.  The connect information is used only once: a tfo_writev call in   *)
(* which the connection step succeeds returns with connect_addrlen = 0,    *)
(* whatever errno was at entry.                                            *)
(***************************************************************************)
C26_ConnectInfoUsedOnce ==
    (InWritev /\ ConnectionStepSucceeded) => session.tfo.connect_addrlen = 0

(* The connection step of the call found the connection in progress.       *)
ConnectionInProgress ==
    \/ TriedFastopen /\ call.syscalls[2].result = Fails("EINPROGRESS")
    \/ /\ CalledConnect
       /\ call.syscalls[Len(call.syscalls)].result
              \in { Fails("EINPROGRESS"), Fails("ENOTCONN") }

C27_WitnessConnect ==
    /\ InWritev
    /\ ~TriedFastopen
    /\ CalledConnect
    /\ call.syscalls[1].result = Fails("ENOTCONN")
    /\ errno = "EAGAIN"
    /\ session.tfo = call.before

(***************************************************************************)
(* C28.  The fallback is sticky: a tfo_writev call entered with            *)
(* connect_only = 1 and a non-zero connect_addrlen issues no sendmsg with  *)
(* MSG_FASTOPEN, only connect(); and a call that had connect_only = 1,     *)
(* from entry or from its own EOPNOTSUPP, returns with connect_only = 0    *)
(* only if its connect() returned 0, and then connect_addrlen is 0 too.    *)
(***************************************************************************)
C28_FallbackIsSticky ==
    InWritev =>
        /\ (call.before.connect_only = 1 /\ call.before.connect_addrlen # 0) =>
               /\ Len(call.syscalls) = 1
               /\ CalledConnect
               /\ ~TriedFastopen
        /\ ((call.before.connect_only = 1 \/ FellBack)
               /\ session.tfo.connect_only = 0) =>
               /\ CalledConnect
               /\ call.syscalls[Len(call.syscalls)].result.ret = 0
               /\ session.tfo.connect_addrlen = 0

(* connect_only is written by tfo_writev and by nothing else.              *)
C28_OnlyWritevWritesConnectOnly ==
    [][ session'.tfo.connect_only # session.tfo.connect_only
            => call'.fn = "tfo_writev" ]_vars

(* A later call retries connect() after a fallback whose connect() was in  *)
(* progress, and this time connect() returns 0.                            *)
C28_Witness ==
    /\ InWritev
    /\ ~call.after_set
    /\ call.before.connect_only = 1
    /\ call.before.connect_addrlen # 0
    /\ CalledConnect
    /\ ret = 0
    /\ session.tfo.connect_only = 0
    /\ session.tfo.connect_addrlen = 0

C28_WitnessStillFallback ==
    /\ InWritev
    /\ call.before.connect_only = 1
    /\ call.before.connect_addrlen # 0
    /\ ret < 0
    /\ session.tfo.connect_only = 1

(***************************************************************************)
(* C29.  gnutls_transport_set_fastopen re-arms fast open: the tfo_writev   *)
(* call that follows a call with a non-zero connect_addrlen first attempts *)
(* sendmsg with MSG_FASTOPEN to the stored address, whatever happened on   *)
(* the session before.                                                     *)
(***************************************************************************)
C29_SetFastopenRearms ==
    (InWritev /\ call.after_set /\ call.before.connect_addrlen # 0) =>
        /\ TriedFastopen
        /\ call.syscalls[2].msg_name = call.before.connect_addr
        /\ call.syscalls[2].msg_namelen = call.before.connect_addrlen

(* The credential types that occur in cred_mappings, in either column.     *)
MappedCredentialTypes ==
    { cred_mappings[p].client_type : p \in 1..kx_map_end }
        \cup { cred_mappings[p].server_type : p \in 1..kx_map_end }

(***************************************************************************)
(* C30.  For every credential type t of cred_mappings and every role r,    *)
(* _gnutls_map_kx_get_cred(_gnutls_map_kx_get_kx(t, r), r) = t.            *)
(***************************************************************************)
C30_CredKxRoundTrip ==
    (/\ call.fn = "_gnutls_map_kx_get_cred"
     /\ "type" \in DOMAIN call
     /\ call.type \in MappedCredentialTypes) => ret = call.type

C30_Witness ==
    /\ call.fn = "_gnutls_map_kx_get_cred"
    /\ "type" \in DOMAIN call
    /\ call.type = GNUTLS_CRD_CERTIFICATE
    /\ call.server = 0
    /\ call.algorithm = GNUTLS_KX_RSA
    /\ ret = GNUTLS_CRD_CERTIFICATE

C30_WitnessServer ==
    /\ call.fn = "_gnutls_map_kx_get_cred"
    /\ "type" \in DOMAIN call
    /\ call.type = GNUTLS_CRD_SRP
    /\ call.server = 1
    /\ call.algorithm = GNUTLS_KX_SRP
    /\ ret = GNUTLS_CRD_SRP

(***************************************************************************)
(* Vocabulary of the sort claims.                                          *)
(***************************************************************************)
InQsort == call.fn = "_gnutls_qsort"

QsortDone == InQsort /\ call.pc = "done"

InPartition == InQsort /\ call.pc \in { "while", "inc_i", "dec_j", "swap" }

(* l and m hold the same ids, each the same number of times.               *)
SameMultiset(l, m) ==
    /\ Len(l) = Len(m)
    /\ \A k \in DOMAIN l :
           Cardinality({ n \in DOMAIN l : l[n] = l[k] })
               = Cardinality({ n \in DOMAIN m : m[n] = l[k] })

(* The sorted call against the unsorted function on the same session.      *)
SameCountAndSuites(unsorted) ==
    /\ ret = unsorted.ret
    /\ ciphers.assigned = unsorted.assigned
    /\ unsorted.assigned => SameMultiset(ciphers.list, unsorted.ciphers)

(***************************************************************************)
(* C24.  _gnutls_qsort only permutes: at every statement of the sort, and  *)
(* so when it returns, the array holds the ids of the input array, each as *)
(* often as the input does, and what it returns with is what the recursive *)
(* definition of the sort computes; _gnutls_supported_ciphersuites_sorted  *)
(* returns the count of _gnutls_supported_ciphersuites and the same        *)
(* suites.                                                                 *)
(***************************************************************************)
C24_OnlyPermutes ==
    /\ InQsort => SameMultiset(ciphers.list, call.input)
    /\ QsortDone =>
           ciphers.list = _gnutls_qsort(session, call.input, Len(call.input),
                                        sizeof_GNUTLS_CipherSuite)
    /\ Sorted => SameCountAndSuites(_gnutls_supported_ciphersuites(session, call.alloc))

(* An array of four ids, two of them equal, that the sort has rearranged.  *)
C24_Witness ==
    /\ QsortDone
    /\ Len(call.input) = 4
    /\ call.input[1] = call.input[4]
    /\ call.input[2] # call.input[1]
    /\ ciphers.list # call.input

C24_WitnessShort ==
    /\ QsortDone
    /\ Len(call.input) = 2
    /\ ciphers.list = << call.input[2], call.input[1] >>
    /\ call.input[1] # call.input[2]

C24_WitnessSorted ==
    /\ Sorted
    /\ ret = 3
    /\ Len(ciphers.list) = 3

(* Every call of _gnutls_qsort entered or still to be entered lies inside  *)
(* the array.                                                              *)
FramesInsideArray ==
    \A k \in DOMAIN call.stack :
        /\ call.stack[k].base >= 0
        /\ call.stack[k].nmemb >= 0
        /\ call.stack[k].base + call.stack[k].nmemb <= Len(call.input)

(* In _gnutls_partition, i and j are byte offsets of records of the        *)
(* sub-array: multiples of size in [0, (nmemb - 1) * size].                *)
IndexBounds ==
    /\ call.full = (Head(call.stack).nmemb - 1) * sizeof_GNUTLS_CipherSuite
    /\ 0 <= call.i
    /\ call.i <= call.full
    /\ 0 <= call.j
    /\ call.j <= call.full
    /\ call.i % sizeof_GNUTLS_CipherSuite = 0
    /\ call.j % sizeof_GNUTLS_CipherSuite = 0

(***************************************************************************)
(* C25.  _gnutls_qsort terminates on every input: in _gnutls_partition the *)
(* offsets i and j stay within [0, (nmemb - 1) * size], so j never wraps   *)
(* around; every recursive call lies inside the array; and every call of   *)
(* _gnutls_qsort returns, also when the left recursive call covers all     *)
(* nmemb records again.                                                    *)
(***************************************************************************)
C25_Terminates ==
    /\ [](InPartition => IndexBounds)
    /\ [](InQsort => FramesInsideArray)
    /\ (InQsort ~> QsortDone)

(* The pivot landed in the last position of the whole array: the left      *)
(* recursive call covers all nmemb records, the right one none.            *)
C25_Witness ==
    /\ InQsort
    /\ call.pc = "qsort"
    /\ Len(call.input) = 4
    /\ Len(call.stack) = 2
    /\ call.stack[1] = qsort_frame(0, 4)
    /\ call.stack[2] = qsort_frame(4, 0)

(* All records compare equal: j has come down to 0.                        *)
C25_WitnessAllEqual ==
    /\ InPartition
    /\ call.pc = "swap"
    /\ Len(call.input) = 4
    /\ Head(call.stack).nmemb = 4
    /\ call.i = call.full
    /\ call.j = 0

(***************************************************************************)
(* Vocabulary of the client certificate claim.                             *)
(***************************************************************************)
AfterHandshake == call.fn = "try" /\ call.pc \in { "check", "deinit" }

(* What gnutls_certificate_get_ours(client) returns is not NULL.           *)
ClientSentCertificate == session.client[1].ours # NULL

(* The server advertised the CA that issued the client's certificate.      *)
IssuerAdvertised ==
    \E k \in DOMAIN session.client[1].certs :
        session.client[1].certs[k].issuer \in call.authorities

C23_WitnessCorrectCA ==
    /\ AfterHandshake
    /\ call.ca_type = CORRECT_CA
    /\ call.authorities = { "CA-3" }
    /\ ClientSentCertificate

C23_WitnessNoCA ==
    /\ AfterHandshake
    /\ call.ca_type = NO_CA
    /\ call.authorities = {}
    /\ ClientSentCertificate

====
